---- MODULE Spec2Model ----
(***************************************************************************)
(* Model of the table renderers of synthetic-table-dataset-gen:            *)
(*   html2img_split.py  calculate_split_points, render_html_with_split,    *)
(*                      process_html_files                                 *)
(*   html2img.py        within_5pct, render_table_single_image,            *)
(*                      render_table_dual_images, process_all_html_files   *)
(* Lengths are whole numbers of a length unit (row heights, paddings) or   *)
(* hundredths of a pixel (cell metrics, which MEASURE_JS rounds to 2       *)
(* decimals).  Row indexes are 0-based as in the Python code.              *)
(***************************************************************************)
EXTENDS Integers, Sequences, FiniteSets, TLC

VARIABLES
    pc,            \* position of the running function
    rows,          \* List[RowInfo]: the measured rows
    max_height,    \* the height budget
    splits,        \* the plan calculate_split_points returned
    page,          \* the loaded document as the layout engine lays it out
    padding,       \* render_html_with_split: padding
    output_path,   \* the output path the caller passed
    unwritable,    \* output paths that cannot be written (existing directories)
    browser,       \* the browser session of the render: none, open, closed
    table_height,  \* tableRect.height as measured
    shots,         \* the screenshots written so far, in order
    output_files,  \* the value returned by render_html_with_split
    render_fn,         \* "single": render_table_single_image, "dual": ..._dual_images
    font_path,         \* "none", or a font file that is "present" or "missing"
    color_probability, \* in percent
    max_tries,
    tol,               \* in percent: 5 is tol = 0.05
    should_apply_color,
    base_metrics,      \* MetricSnapshot: sequence of [w, h] in hundredths of a pixel
    cur_metrics,
    within_result,     \* what the last call of within_5pct returned
    attempts,          \* the theme attempts made so far: [theme, cur, passed]
    chosen,            \* name of the chosen theme, "None" when there is none
    style_tags,        \* the style tags added to the page, in order
    theme_returned,    \* the theme name the render returned, "None" when none
    ops,               \* the operations of the render so far, in order: [op, arg]
    tape,              \* what the random generator and the layout engine answered
    first_run,         \* the render that ran before this one on the same input
    batch_fn,      \* "all": process_all_html_files, "split": process_html_files
    html_files,    \* the input files found: [stem, readable]
    batch_opts,    \* [overwrite, raw_mode, generate_colored, images_per_file]
    file_idx,      \* i of `for i, html_file in enumerate(html_files)`
    img_idx,       \* img_idx of `for img_idx in range(images_per_file)`
    fs,            \* the names of the files in the output directory
    attempted,     \* the i whose iteration has begun
    caught,        \* the failures caught: [file, image, error]
    failed_files,  \* process_output_qa_folder: failed_files
    reported,      \* the failed file names the print at the end of the run shows
    chosen_out,    \* the output names the loop chose for the render it calls
    sessions,      \* the renders the run called: their browser session, and the
                   \* files they wrote over
    text_fn,       \* the text function under study
    html_content,  \* its input string
    clean_table,   \* what extract_clean_table(html_content) returned
    clean_again,   \* what extract_clean_table returned for its own result
    text_result    \* what clean_html_response or the wrap function returned

splitVars == <<rows, max_height, splits>>
pageVars == <<page, padding, output_path, unwritable>>
renderVars == <<browser, table_height, shots, output_files>>
themeParams == <<render_fn, font_path, color_probability, max_tries>>
metricVars == <<tol, base_metrics, cur_metrics, within_result>>
searchVars == <<should_apply_color, attempts, chosen, style_tags, theme_returned>>
traceVars == <<ops, tape, first_run>>
themeVars == <<themeParams, metricVars, searchVars, traceVars>>
batchVars ==
    <<batch_fn, html_files, batch_opts, file_idx, img_idx, fs, attempted, caught,
      failed_files, reported, chosen_out, sessions>>
textVars == <<text_fn, html_content, clean_table, clean_again, text_result>>
vars == <<pc, splitVars, pageVars, renderVars, themeVars, batchVars, textVars>>

\* what the actions of calculate_split_points and render_html_with_split leave alone
outsideSplit == <<themeVars, batchVars, textVars>>

(***************************************************************************)
(* Bounds of the model.                                                    *)
(***************************************************************************)
MaxRows == 4
MaxRowHeight == 3
MaxBudget == 3
MaxPageRows == 3
MaxPageRowHeight == 2
MaxExtra == 1
MaxPadding == 1
MaxTableTop == 1

(***************************************************************************)
(* Helpers.                                                                *)
(***************************************************************************)
RECURSIVE SumHeights(_, _, _)
\* sum of heights[a..b], 1-based positions, 0 when a > b
SumHeights(hs, a, b) == IF a > b THEN 0 ELSE hs[a] + SumHeights(hs, a + 1, b)

\* all sequences over S of length 0..n
SeqsUpTo(S, n) == UNION {[1..k -> S] : k \in 0..n}

\* RowInfo list of a table whose rows are stacked without gaps
\* (get_table_row_positions: top and bottom relative to the table's top edge)
RowInfos(hs) ==
    [k \in 1..Len(hs) |->
        [index  |-> k - 1,
         top    |-> SumHeights(hs, 1, k - 1),
         bottom |-> SumHeights(hs, 1, k),
         height |-> hs[k]]]

(***************************************************************************)
(* calculate_split_points (html2img_split.py 191-217).                     *)
(* The loop state is [splits, start_idx, current_height]; SplitStep is one *)
(* iteration of `for i, row in enumerate(rows)`.                           *)
(***************************************************************************)
SplitStepNoReset(st, i, row, mh) ==
    IF st.current_height + row.height > mh /\ i > st.start_idx
    THEN [splits         |-> Append(st.splits, <<st.start_idx, i - 1>>),
          start_idx      |-> i,
          current_height |-> 0]
    ELSE [st EXCEPT !.current_height = st.current_height + row.height]

SplitStepRowOnly(st, i, row, mh) ==
    IF row.height > mh /\ i > st.start_idx
    THEN [splits         |-> Append(st.splits, <<st.start_idx, i - 1>>),
          start_idx      |-> i,
          current_height |-> row.height]
    ELSE [st EXCEPT !.current_height = st.current_height + row.height]

SplitStepOffByOne(st, i, row, mh) ==
    IF st.current_height + row.height > mh /\ i > st.start_idx
    THEN [splits         |-> Append(st.splits, <<st.start_idx, i>>),
          start_idx      |-> i,
          current_height |-> row.height]
    ELSE [st EXCEPT !.current_height = st.current_height + row.height]

SplitStepAtBudget(st, i, row, mh) ==
    IF st.current_height + row.height >= mh /\ i > st.start_idx
    THEN [splits         |-> Append(st.splits, <<st.start_idx, i - 1>>),
          start_idx      |-> i,
          current_height |-> row.height]
    ELSE [st EXCEPT !.current_height = st.current_height + row.height]

SplitStep(st, i, row, mh) ==
    IF st.current_height + row.height > mh /\ i > st.start_idx
    THEN [splits         |-> Append(st.splits, <<st.start_idx, i - 1>>),
          start_idx      |-> i,
          current_height |-> row.height]
    ELSE [st EXCEPT !.current_height = st.current_height + row.height]

RECURSIVE SplitLoop(_, _, _, _)
\* the iterations i, i+1, ..., len(rows)-1 of the for loop
SplitLoop(rws, mh, i, st) ==
    IF i >= Len(rws) THEN st
    ELSE SplitLoop(rws, mh, i + 1, SplitStep(st, i, rws[i + 1], mh))

calculate_split_points(rws, mh) ==
    IF rws = <<>> THEN <<>>
    ELSE LET st == SplitLoop(rws, mh, 0,
                     [splits |-> <<>>, start_idx |-> 0, current_height |-> 0])
         IN  IF st.start_idx < Len(rws)
             THEN Append(st.splits, <<st.start_idx, Len(rws) - 1>>)
             ELSE st.splits

(***************************************************************************)
(* Specification SpecSplit: calculate_split_points on every bounded input. *)
(***************************************************************************)
NoPage == [hasTable |-> FALSE, heights |-> <<>>, extra |-> 0, tableTop |-> 0]

IdlePage ==
    /\ page = NoPage
    /\ padding = 0
    /\ output_path = <<>>
    /\ unwritable = {}

IdleRender ==
    /\ browser = "none"
    /\ table_height = 0
    /\ shots = <<>>
    /\ output_files = <<>>

\* no render ran before
NoRun == [done |-> FALSE, fn |-> "none", ended |-> "none", ops |-> <<>>,
          tape |-> <<>>, theme |-> "None"]

IdleTrace ==
    /\ ops = <<>>
    /\ tape = <<>>
    /\ first_run = NoRun

IdleTheme ==
    /\ render_fn = "none"
    /\ font_path = "none"
    /\ color_probability = 0
    /\ max_tries = 0
    /\ tol = 0
    /\ should_apply_color = FALSE
    /\ base_metrics = <<>>
    /\ cur_metrics = <<>>
    /\ within_result = FALSE
    /\ attempts = <<>>
    /\ chosen = "None"
    /\ style_tags = <<>>
    /\ theme_returned = "None"
    /\ IdleTrace

\* no output name chosen yet
NoOut == [base |-> <<>>, counter |-> 0, std |-> <<>>, clr |-> <<>>, files |-> {}]

IdleBatch ==
    /\ batch_fn = "none"
    /\ html_files = <<>>
    /\ batch_opts = [overwrite |-> FALSE, raw_mode |-> FALSE,
                     generate_colored |-> FALSE, images_per_file |-> 0]
    /\ file_idx = 0
    /\ img_idx = 0
    /\ fs = {}
    /\ attempted = {}
    /\ caught = <<>>
    /\ failed_files = <<>>
    /\ reported = <<>>
    /\ chosen_out = NoOut
    /\ sessions = <<>>

\* Optional[str]: None, or a string
None == [none |-> TRUE, str |-> <<>>]

IdleText ==
    /\ text_fn = "none"
    /\ html_content = <<>>
    /\ clean_table = None
    /\ clean_again = None
    /\ text_result = <<>>

InitSplit ==
    /\ pc = "split_call"
    /\ \E hs \in SeqsUpTo(0..MaxRowHeight, MaxRows) : rows = RowInfos(hs)
    /\ max_height \in 1..MaxBudget
    /\ splits = <<>>
    /\ IdlePage
    /\ IdleRender
    /\ IdleTheme
    /\ IdleBatch
    /\ IdleText

CalcSplit ==
    /\ pc = "split_call"
    /\ splits' = calculate_split_points(rows, max_height)
    /\ pc' = "split_done"
    /\ UNCHANGED <<rows, max_height, pageVars, renderVars>>
    /\ UNCHANGED outsideSplit

NextSplit == CalcSplit

SpecSplit == InitSplit /\ [][NextSplit]_vars

\* sum of the heights of rows s..e (0-based, inclusive)
IntervalHeight(rws, s, e) ==
    SumHeights([k \in 1..Len(rws) |-> rws[k].height], s + 1, e + 1)

(***************************************************************************)
(* C1: for n >= 1 rows and a positive max_height the plan's intervals have *)
(* start <= end, the first starts at 0, the last ends at n-1 and each next *)
(* interval starts at the previous end + 1.                                *)
(***************************************************************************)
IsCover(spl, n) ==
    /\ Len(spl) >= 1
    /\ spl[1][1] = 0
    /\ spl[Len(spl)][2] = n - 1
    /\ \A k \in 1..Len(spl) : spl[k][1] <= spl[k][2]
    /\ \A k \in 1..(Len(spl) - 1) : spl[k + 1][1] = spl[k][2] + 1

C1_Coverage ==
    (pc = "split_done" /\ Len(rows) >= 1) => IsCover(splits, Len(rows))

C1_Witness ==
    /\ pc = "split_done"
    /\ Len(rows) = 4
    /\ Len(splits) = 3

(***************************************************************************)
(* C2: a row whose own height is greater than max_height is the singleton  *)
(* interval (i,i) of the plan, wherever it sits.                           *)
(***************************************************************************)
InPlan(spl, iv) == \E k \in 1..Len(spl) : spl[k] = iv

C2_SingleRowOverflow ==
    pc = "split_done" =>
        \A k \in 1..Len(rows) :
            rows[k].height > max_height => InPlan(splits, <<k - 1, k - 1>>)

C2_Witness ==
    /\ pc = "split_done"
    /\ Len(rows) = 3
    /\ rows[1].height <= max_height
    /\ rows[2].height > max_height
    /\ rows[3].height = 0
    /\ InPlan(splits, <<1, 1>>)

(***************************************************************************)
(* C3: every interval's total row height is <= max_height unless it is a   *)
(* single row that alone exceeds max_height.                               *)
(***************************************************************************)
C3_HeightBudget ==
    pc = "split_done" =>
        \A k \in 1..Len(splits) :
            \/ IntervalHeight(rows, splits[k][1], splits[k][2]) <= max_height
            \/ /\ splits[k][1] = splits[k][2]
               /\ rows[splits[k][1] + 1].height > max_height

C3_Witness ==
    /\ pc = "split_done"
    /\ Len(splits) = 2
    /\ splits[1][2] > splits[1][1]
    /\ IntervalHeight(rows, splits[1][1], splits[1][2]) = max_height

(***************************************************************************)
(* render_html_with_split (html2img_split.py 220-328).                     *)
(* The page is what the layout engine makes of the document: whether       *)
(* document.querySelector('table') finds a table, the heights of its rows  *)
(* (stacked, in document order), what the table's box holds besides its    *)
(* rows (extra) and the table's top edge on the page (tableTop).           *)
(* A file name is its sequence of '_'-separated parts: <<"t">> is t.png,   *)
(* <<"t", "2">> is t_2.png.                                                *)
(***************************************************************************)
Pages ==
    {NoPage} \cup
    [hasTable : {TRUE},
     heights  : SeqsUpTo(0..MaxPageRowHeight, MaxPageRows),
     extra    : 0..MaxExtra,
     tableTop : 0..MaxTableTop]

\* get_table_row_positions: ([], 0, 0) without a table
MeasuredRows(pg) == IF pg.hasTable THEN RowInfos(pg.heights) ELSE <<>>

MeasuredTableHeight(pg) ==
    IF pg.hasTable THEN SumHeights(pg.heights, 1, Len(pg.heights)) + pg.extra
    ELSE 0

\* f"{output_stem}_{part_idx}{output_ext}" in the output directory
PartPathZeroBased(stem, part_idx) == Append(stem, ToString(part_idx - 1))

PartPath(stem, part_idx) == Append(stem, ToString(part_idx))

\* `if table_height <= max_height` (line 274)
FitsStrict(th, mh) == th < mh

Fits(th, mh) == th <= mh

NoClip == [y |-> 0, height |-> 0]

\* the vertical part of the clip rectangle of lines 298-315
ClipOf(pg, rws, start_row, end_row, pad) ==
    LET start_top  == rws[start_row + 1].top
        end_bottom == rws[end_row + 1].bottom
    IN  [y      |-> pg.tableTop + start_top - pad,
         height |-> (end_bottom - start_top) + pad * 2]

async_with_exit_leaving_browser(b) == b

\* an exception leaves `async with async_playwright() as p`: the context
\* manager stops the driver, which ends the browser launched through it
async_with_exit(b) == IF b = "open" THEN "closed" ELSE b

\* a screenshot call: the file is written, or the write raises and the
\* exception leaves the `async with` block
Screenshot(path, target, clip, onSuccess) ==
    IF path \in unwritable
    THEN /\ pc' = "rs_raised"
         /\ browser' = async_with_exit(browser)
         /\ UNCHANGED <<shots, output_files>>
    ELSE /\ shots' = Append(shots, [path |-> path, target |-> target, clip |-> clip])
         /\ onSuccess

\* `await browser.close(); return [str(output_path)]`
ReturnSingle ==
    /\ browser' = "closed"
    /\ output_files' = <<output_path>>
    /\ pc' = "rs_returned"

InitRenderSplit ==
    /\ pc = "rs_start"
    /\ rows = <<>>
    /\ splits = <<>>
    /\ max_height \in 1..MaxBudget
    /\ page \in Pages
    /\ padding \in 0..MaxPadding
    /\ output_path = <<"t">>
    /\ unwritable \in {{}, {<<"t">>}, {<<"t", "1">>}, {<<"t", "2">>}}
    /\ IdleRender
    /\ IdleTheme
    /\ IdleBatch
    /\ IdleText

\* lines 241-261: launch the browser, load the wrapped document
RS_Launch ==
    /\ pc = "rs_start"
    /\ browser' = "open"
    /\ pc' = "rs_loaded"
    /\ UNCHANGED <<splitVars, pageVars, table_height, shots, output_files>>
    /\ UNCHANGED outsideSplit

\* line 264
RS_Measure ==
    /\ pc = "rs_loaded"
    /\ rows' = MeasuredRows(page)
    /\ table_height' = MeasuredTableHeight(page)
    /\ pc' = "rs_measured"
    /\ UNCHANGED <<max_height, splits, pageVars, browser, shots, output_files>>
    /\ UNCHANGED outsideSplit

\* lines 267-271: no rows, capture the body
RS_CaptureBody ==
    /\ pc = "rs_measured"
    /\ rows = <<>>
    /\ Screenshot(output_path, "body", NoClip, ReturnSingle)
    /\ UNCHANGED <<splitVars, pageVars, table_height>>
    /\ UNCHANGED outsideSplit

\* lines 274-278: the table fits, capture the table element
RS_CaptureWhole ==
    /\ pc = "rs_measured"
    /\ rows # <<>>
    /\ Fits(table_height, max_height)
    /\ Screenshot(output_path, "table", NoClip, ReturnSingle)
    /\ UNCHANGED <<splitVars, pageVars, table_height>>
    /\ UNCHANGED outsideSplit

\* line 281
RS_Plan ==
    /\ pc = "rs_measured"
    /\ rows # <<>>
    /\ ~Fits(table_height, max_height)
    /\ splits' = calculate_split_points(rows, max_height)
    /\ pc' = "rs_planned"
    /\ UNCHANGED <<rows, max_height, pageVars, renderVars>>
    /\ UNCHANGED outsideSplit

\* lines 283-288: the plan is one interval, capture the table element
RS_CaptureUnsplit ==
    /\ pc = "rs_planned"
    /\ Len(splits) = 1
    /\ Screenshot(output_path, "table", NoClip, ReturnSingle)
    /\ UNCHANGED <<splitVars, pageVars, table_height>>
    /\ UNCHANGED outsideSplit

\* lines 293-324: one iteration of the loop over the plan's intervals
RS_CapturePart ==
    /\ pc = "rs_planned"
    /\ Len(splits) # 1
    /\ Len(output_files) < Len(splits)
    /\ LET part_idx  == Len(output_files) + 1
           part_path == PartPath(output_path, part_idx)
           clip      == ClipOf(page, rows, splits[part_idx][1],
                               splits[part_idx][2], padding)
       IN  Screenshot(part_path, "clip", clip,
             /\ output_files' = Append(output_files, part_path)
             /\ UNCHANGED <<pc, browser>>)
    /\ UNCHANGED <<splitVars, pageVars, table_height>>
    /\ UNCHANGED outsideSplit

\* lines 326-328
RS_Return ==
    /\ pc = "rs_planned"
    /\ Len(splits) # 1
    /\ Len(output_files) = Len(splits)
    /\ browser' = "closed"
    /\ pc' = "rs_returned"
    /\ UNCHANGED <<splitVars, pageVars, table_height, shots, output_files>>
    /\ UNCHANGED outsideSplit

NextRenderSplit ==
    \/ RS_Launch
    \/ RS_Measure
    \/ RS_CaptureBody
    \/ RS_CaptureWhole
    \/ RS_Plan
    \/ RS_CaptureUnsplit
    \/ RS_CapturePart
    \/ RS_Return

SpecRenderSplit == InitRenderSplit /\ [][NextRenderSplit]_vars

(***************************************************************************)
(* C4: render_html_with_split never cuts a row: for every segment image,   *)
(* every table row lies either entirely inside or entirely outside the     *)
(* captured region [clip.y, clip.y + clip.height].                         *)
(***************************************************************************)
RowTopOnPage(r) == page.tableTop + rows[r].top

RowBottomOnPage(r) == page.tableTop + rows[r].bottom

C4_NeverCutsARow ==
    \A k \in 1..Len(shots) :
        shots[k].target = "clip" =>
            \A r \in 1..Len(rows) :
                LET y0 == shots[k].clip.y
                    y1 == shots[k].clip.y + shots[k].clip.height
                IN  \/ (y0 <= RowTopOnPage(r) /\ RowBottomOnPage(r) <= y1)
                    \/ RowBottomOnPage(r) <= y0
                    \/ RowTopOnPage(r) >= y1

(***************************************************************************)
(* C5: when a split occurs the render returns one path per plan interval,  *)
(* in interval order, part k being <stem>_<k>; when no split occurs it     *)
(* returns the un-suffixed output path alone.  The files written are the   *)
(* paths returned.                                                         *)
(***************************************************************************)
SplitOccurred == \E k \in 1..Len(shots) : shots[k].target = "clip"

C5_OutputNaming ==
    pc = "rs_returned" =>
        /\ SplitOccurred =>
              /\ Len(splits) >= 2
              /\ output_files = [k \in 1..Len(splits) |-> Append(output_path, ToString(k))]
        /\ ~SplitOccurred => output_files = <<output_path>>
        /\ output_files = [k \in 1..Len(shots) |-> shots[k].path]

C5_Witness ==
    /\ pc = "rs_returned"
    /\ output_files = <<(<<"t", "1">>), (<<"t", "2">>), (<<"t", "3">>)>>

(***************************************************************************)
(* C6 as stated: with a table whose measured total height is <= max_height *)
(* the render captures exactly one image of the whole table at the         *)
(* un-suffixed output path and never calls the split planner.              *)
(***************************************************************************)
WholeTableShot == [path |-> output_path, target |-> "table", clip |-> NoClip]

Max(a, b) == IF a >= b THEN a ELSE b

EdgeRejected == {<<209, 220>>}

\* lo <= float(c) / bw <= hi
RatioWithin(c, bw, tl) ==
    /\ (100 - tl) * bw <= 100 * c
    /\ 100 * c <= (100 + tl) * bw
    /\ ~(tl = 5 /\ <<c, bw>> \in EdgeRejected)

\* the body of the loop: FALSE is the early `return False`
CellWithin(b, c, tl) ==
    LET bw == Max(1, b.w)
        bh == Max(1, b.h)
    IN  RatioWithin(c.w, bw, tl) /\ RatioWithin(c.h, bh, tl)

RECURSIVE WithinLoop(_, _, _, _)
\* `for b, c in zip(base, cur)` from the i-th pair on
WithinLoop(base, cur, tl, i) ==
    IF i > Len(base) THEN TRUE
    ELSE IF ~CellWithin(base[i], cur[i], tl) THEN FALSE
    ELSE WithinLoop(base, cur, tl, i + 1)

within_5pct_without_length_check(base, cur, tl) ==
    LET n == IF Len(cur) < Len(base) THEN Len(cur) ELSE Len(base)
    IN  WithinLoop(SubSeq(base, 1, n), SubSeq(cur, 1, n), tl, 1)

within_5pct(base, cur, tl) ==
    IF Len(base) # Len(cur) THEN FALSE
    ELSE WithinLoop(base, cur, tl, 1)

(***************************************************************************)
(* Specification SpecWithin: within_5pct on every bounded pair of          *)
(* snapshots.  The values sit on, inside and outside the 5% band of the    *)
(* baselines 2.00 and 2.20, and include 0 and 0.01.                        *)
(***************************************************************************)
MaxCells == 2

BaseCells == [w : {0, 200, 220}, h : {0, 200}]

CurCells == [w : {0, 1, 190, 200, 209, 210, 211, 220}, h : {0, 200, 211}]

InitWithin ==
    /\ pc = "w_call"
    /\ base_metrics \in SeqsUpTo(BaseCells, MaxCells)
    /\ cur_metrics \in SeqsUpTo(CurCells, MaxCells)
    /\ tol \in {0, 5}
    /\ within_result = FALSE
    /\ rows = <<>>
    /\ max_height = 0
    /\ splits = <<>>
    /\ IdlePage
    /\ IdleRender
    /\ render_fn = "none"
    /\ font_path = "none"
    /\ color_probability = 0
    /\ max_tries = 0
    /\ should_apply_color = FALSE
    /\ attempts = <<>>
    /\ chosen = "None"
    /\ style_tags = <<>>
    /\ theme_returned = "None"
    /\ IdleTrace
    /\ IdleBatch
    /\ IdleText

CallWithin ==
    /\ pc = "w_call"
    /\ within_result' = within_5pct(base_metrics, cur_metrics, tol)
    /\ pc' = "w_done"
    /\ UNCHANGED <<splitVars, pageVars, renderVars, themeParams, searchVars>>
    /\ UNCHANGED <<tol, base_metrics, cur_metrics, traceVars, batchVars, textVars>>

NextWithin == CallWithin

SpecWithin == InitWithin /\ [][NextWithin]_vars

(***************************************************************************)
(* C7: for snapshots of equal length within_5pct is true if and only if    *)
(* for every cell both candidate.w / baseline.w and candidate.h /          *)
(* baseline.h lie in [1 - tol, 1 + tol].  The ratio is taken against the   *)
(* baseline floored at 0.01, as the theme search describes it, which is    *)
(* the plain ratio for every baseline dimension above 0.                   *)
(***************************************************************************)
ExactRatioInBand(c, b, tl) ==
    LET fb == IF b < 1 THEN 1 ELSE b
    IN  (100 - tl) * fb <= 100 * c /\ 100 * c <= (100 + tl) * fb

C7_AcceptanceBound ==
    (pc = "w_done" /\ Len(base_metrics) = Len(cur_metrics)) =>
        (within_result <=>
            \A i \in 1..Len(base_metrics) :
                /\ ExactRatioInBand(cur_metrics[i].w, base_metrics[i].w, tol)
                /\ ExactRatioInBand(cur_metrics[i].h, base_metrics[i].h, tol))

(***************************************************************************)
(* render_table_single_image (html2img.py 693-805) and                     *)
(* render_table_dual_images (html2img.py 343-485).                         *)
(***************************************************************************)
MaxTries == 2

\* THEMES (lines 218-223); weights in tenths
THEMES ==
    <<[name |-> "gray_clean",  zebra |-> TRUE,  weight |-> 35],
      [name |-> "soft_card",   zebra |-> TRUE,  weight |-> 10],
      [name |-> "blue_header", zebra |-> TRUE,  weight |-> 2],
      [name |-> "mono",        zebra |-> FALSE, weight |-> 35]>>

\* the themes random.choices can return: those of positive weight
choose_weighted_theme(themes) ==
    {themes[k] : k \in {j \in 1..Len(themes) : themes[j].weight > 0}}

\* line 447 / 790
PlainTheme == [name |-> "plain", zebra |-> FALSE, weight |-> 10]

\* random.random() is in [0, 1): 0.0, 0.5 and 0.99 stand for its values
RandomDraws == {0, 50, 99}

\* what MEASURE_JS can return for the base layout and after a theme was applied
BaseSnapshots == {<<[w |-> 200, h |-> 200]>>, <<[w |-> 220, h |-> 200]>>}

CurSnapshots ==
    {<<[w |-> 200, h |-> 200]>>, <<[w |-> 209, h |-> 200]>>,
     <<[w |-> 211, h |-> 200]>>, <<>>}

out_path_std == <<"t">>

out_path_colored == <<"t", "colored">>

\* `if chosen is None` (line 450 / 793)
NoThemeFoundNever(ch) == FALSE

NoThemeFound(ch) == ch = "None"

\* one operation of the render: a call on the page, a draw, a comparison
Op(name, arg) == [op |-> name, arg |-> arg]

\* one answer of the random generator or of the layout engine
Entry(kind, draw, theme, snap) ==
    [kind |-> kind, draw |-> draw, theme |-> theme, snap |-> snap]

SeedsGeneratorSingleOnly(fn) == fn = "single"

\* `if seed is not None: random.seed(seed)` (lines 357-358 / 706-707)
SeedsGenerator(fn) == fn \in {"single", "dual"}

\* The answers a render can get.  A render that follows another one on the
\* same input, seed and layout engine gets the answers the first one got: the
\* generator's as long as the renderer seeds it, the engine's for the same
\* measurement.
Allowed(e) ==
    IF ~first_run.done THEN TRUE
    ELSE IF Len(tape) >= Len(first_run.tape) THEN TRUE
    ELSE IF first_run.tape[Len(tape) + 1].kind # e.kind THEN TRUE
    ELSE IF e.kind \in {"random", "choices"} /\ ~SeedsGenerator(render_fn) THEN TRUE
    ELSE e = first_run.tape[Len(tape) + 1]

\* an exception raised inside `async with async_playwright()` leaves the block
RaiseInSession ==
    /\ pc' = "r_raised"
    /\ browser' = async_with_exit(browser)

\* shot.screenshot(path=...)
ShotScreenshot(path, next) ==
    IF path \in unwritable
    THEN /\ RaiseInSession
         /\ UNCHANGED shots
    ELSE /\ shots' = Append(shots, [path |-> path, target |-> "shot", clip |-> NoClip])
         /\ pc' = next
         /\ UNCHANGED browser

outsideTheme ==
    <<splitVars, padding, output_path, table_height, output_files, batchVars, textVars>>

InitRender ==
    /\ pc = "r_start"
    /\ render_fn \in {"single", "dual", "raw"}
    /\ font_path \in (IF render_fn = "raw" THEN {"none"}
                      ELSE {"none", "present", "missing"})
    /\ color_probability \in (IF render_fn = "raw" THEN {0} ELSE {0, 50, 100})
    /\ max_tries \in (IF render_fn = "raw" THEN {0} ELSE 0..MaxTries)
    /\ tol = 5
    /\ page \in {NoPage, [hasTable |-> TRUE, heights |-> <<1>>, extra |-> 0, tableTop |-> 0]}
    /\ unwritable \in {{}, {out_path_std}, {out_path_colored}}
    /\ padding = 0
    /\ output_path = <<>>
    /\ rows = <<>>
    /\ max_height = 0
    /\ splits = <<>>
    /\ IdleRender
    /\ should_apply_color = FALSE
    /\ base_metrics = <<>>
    /\ cur_metrics = <<>>
    /\ within_result = FALSE
    /\ attempts = <<>>
    /\ chosen = "None"
    /\ style_tags = <<>>
    /\ theme_returned = "None"
    /\ IdleTrace
    /\ IdleBatch
    /\ IdleText

font_face_base64_unchecked(fp) == IF fp = "none" THEN "" ELSE "font_face"

\* `if font_path: font_css = font_face_base64(font_path, ...)` (lines 371-374
\* / 718-721): font_face_base64 raises FileNotFoundError when the file does
\* not exist (lines 104-107), else it is the @font-face rule
font_face_base64(fp) ==
    IF fp = "none" THEN ""
    ELSE IF fp = "missing" THEN "FileNotFoundError"
    ELSE "font_face"

\* lines 357-385 / 706-732: everything before `async with async_playwright()`
R_Prepare ==
    /\ pc = "r_start"
    /\ pc' = IF font_face_base64(font_path) = "FileNotFoundError"
             THEN "r_raised" ELSE "r_ready"
    /\ UNCHANGED <<pageVars, renderVars, themeVars, outsideTheme>>

\* lines 387-398 / 734-745 / 670-680
R_Launch ==
    /\ pc = "r_ready"
    /\ browser' = "open"
    /\ ops' = ops \o <<Op("set_content", ""), Op("wait_for_timeout", "100")>>
    /\ pc' = "r_loaded"
    /\ UNCHANGED <<page, unwritable, shots, themeParams, metricVars, searchVars>>
    /\ UNCHANGED <<tape, first_run, outsideTheme>>

\* lines 400-404 / 747-751
R_InjectCss ==
    /\ pc = "r_loaded"
    /\ render_fn # "raw"
    /\ style_tags' = IF font_face_base64(font_path) # ""
                     THEN <<font_face_base64(font_path), "base_css">>
                     ELSE <<"base_css">>
    /\ ops' = ops \o (IF font_face_base64(font_path) # ""
                      THEN <<Op("add_style_tag", font_face_base64(font_path)),
                             Op("evaluate", "fonts.ready")>>
                      ELSE <<>>)
                  \o <<Op("add_style_tag", "base_css")>>
    /\ pc' = "r_styled"
    /\ UNCHANGED <<page, unwritable, browser, shots, themeParams, metricVars>>
    /\ UNCHANGED <<should_apply_color, attempts, chosen, theme_returned>>
    /\ UNCHANGED <<tape, first_run, outsideTheme>>

\* lines 407-426 / 753-772: the script throws when there is no table
R_Wrap ==
    /\ pc = "r_styled"
    /\ IF page.hasTable
       THEN /\ pc' = "r_wrapped"
            /\ ops' = ops \o <<Op("evaluate", "wrap"), Op("wait_for_timeout", "30")>>
            /\ UNCHANGED browser
       ELSE /\ RaiseInSession
            /\ ops' = ops \o <<Op("evaluate", "wrap")>>
    /\ UNCHANGED <<page, unwritable, shots, themeParams, metricVars, searchVars>>
    /\ UNCHANGED <<tape, first_run, outsideTheme>>

\* line 429 / 774
R_MeasureBase ==
    /\ pc = "r_wrapped"
    /\ \E snap \in BaseSnapshots :
          /\ Allowed(Entry("measure", 0, "", snap))
          /\ base_metrics' = snap
          /\ tape' = Append(tape, Entry("measure", 0, "", snap))
    /\ ops' = ops \o <<Op("evaluate", "MEASURE_JS")>>
    /\ pc' = "r_measured"
    /\ UNCHANGED <<page, unwritable, browser, shots, themeParams, searchVars>>
    /\ UNCHANGED <<tol, cur_metrics, within_result, first_run, outsideTheme>>

BelowOrAtProbability(r, cp) == r <= cp

\* `random.random() < color_probability` (line 432 / 776)
BelowProbability(r, cp) == r < cp

\* lines 432-433 / 776-777
R_Draw ==
    /\ pc = "r_measured"
    /\ \E r \in RandomDraws :
          /\ Allowed(Entry("random", r, "", <<>>))
          /\ should_apply_color' = BelowProbability(r, color_probability)
          /\ tape' = Append(tape, Entry("random", r, "", <<>>))
          /\ pc' = IF BelowProbability(r, color_probability)
                   THEN (IF max_tries = 0 THEN "r_after" ELSE "r_search")
                   ELSE "r_plain"
    /\ ops' = ops \o <<Op("random", "")>>
    /\ chosen' = "None"
    /\ UNCHANGED <<page, unwritable, browser, shots, themeParams, metricVars>>
    /\ UNCHANGED <<attempts, style_tags, theme_returned, first_run, outsideTheme>>

LoopEndsAtBoundOnly(passed, tried, mt) == tried = mt

\* the `for _ in range(max_tries)` loop ends at its `break` (line 444 / 788)
\* or after max_tries iterations
LoopEnds(passed, tried, mt) == passed \/ tried = mt

AttemptOpsMeasureFirst(name, passed) ==
    <<Op("choices", name),
      Op("evaluate", "MEASURE_JS"),
      Op("add_style_tag", name),
      Op("wait_for_timeout", "30"),
      Op("within_5pct", IF passed THEN "True" ELSE "False")>>

\* the calls of one iteration, in the order of lines 437-442 / 781-786
AttemptOps(name, passed) ==
    <<Op("choices", name),
      Op("add_style_tag", name),
      Op("wait_for_timeout", "30"),
      Op("evaluate", "MEASURE_JS"),
      Op("within_5pct", IF passed THEN "True" ELSE "False")>>

\* lines 436-444 / 780-788: one iteration of `for _ in range(max_tries)`
R_Attempt ==
    /\ pc = "r_search"
    /\ \E theme \in choose_weighted_theme(THEMES), cur \in CurSnapshots :
          LET passed == within_5pct(base_metrics, cur, tol)
          IN  /\ Allowed(Entry("choices", 0, theme.name, <<>>))
              /\ LET got == Append(tape, Entry("choices", 0, theme.name, <<>>))
                 IN  /\ IF ~first_run.done THEN TRUE
                        ELSE IF Len(got) >= Len(first_run.tape) THEN TRUE
                        ELSE IF first_run.tape[Len(got) + 1].kind # "measure" THEN TRUE
                        ELSE first_run.tape[Len(got) + 1].snap = cur
                     /\ tape' = Append(got, Entry("measure", 0, "", cur))
              /\ style_tags' = Append(style_tags, theme.name)
              /\ ops' = ops \o AttemptOps(theme.name, passed)
              /\ cur_metrics' = cur
              /\ within_result' = passed
              /\ attempts' = Append(attempts,
                    [theme |-> theme.name, cur |-> cur, passed |-> passed])
              /\ chosen' = IF passed THEN theme.name ELSE chosen
              /\ pc' = IF LoopEnds(passed, Len(attempts) + 1, max_tries)
                       THEN "r_after" ELSE "r_search"
    /\ UNCHANGED <<page, unwritable, browser, shots, themeParams>>
    /\ UNCHANGED <<tol, base_metrics, should_apply_color, theme_returned>>
    /\ UNCHANGED <<first_run, outsideTheme>>

\* lines 445-448 / 789-791
R_Plain ==
    /\ pc = "r_plain"
    /\ chosen' = PlainTheme.name
    /\ style_tags' = Append(style_tags, PlainTheme.name)
    /\ ops' = ops \o <<Op("add_style_tag", PlainTheme.name)>>
    /\ pc' = "r_after"
    /\ UNCHANGED <<page, unwritable, browser, shots, themeParams, metricVars>>
    /\ UNCHANGED <<should_apply_color, attempts, theme_returned>>
    /\ UNCHANGED <<tape, first_run, outsideTheme>>

\* lines 450-452 / 793-795
R_Exhausted ==
    /\ pc = "r_after"
    /\ NoThemeFound(chosen)
    /\ browser' = "closed"
    /\ ops' = ops \o <<Op("close", "")>>
    /\ pc' = "r_raised"
    /\ UNCHANGED <<page, unwritable, shots, themeParams, metricVars, searchVars>>
    /\ UNCHANGED <<tape, first_run, outsideTheme>>

\* getComputedStyle(#shot).fontFamily (line 454 / 797): the family of the
\* @font-face rule when a font file was given, else the document's own
AppliedFont(tags) ==
    IF \E k \in 1..Len(tags) : tags[k] = "font_face" THEN "MyKR" ELSE "document"

\* lines 454-460 / 797-802
R_CaptureStd ==
    /\ pc = "r_after"
    /\ ~NoThemeFound(chosen)
    /\ ShotScreenshot(out_path_std, "r_std_saved")
    /\ ops' = ops \o <<Op("applied_font", AppliedFont(style_tags)),
                       Op("query_selector", "#shot"),
                       Op("screenshot", "out_path_std")>>
    /\ UNCHANGED <<page, unwritable, themeParams, metricVars, searchVars>>
    /\ UNCHANGED <<tape, first_run, outsideTheme>>

\* lines 463-481, dual only
R_CaptureColored ==
    /\ pc = "r_std_saved"
    /\ render_fn = "dual"
    /\ ShotScreenshot(out_path_colored, "r_all_saved")
    /\ ops' = ops \o <<Op("random", "pastel"), Op("random", "margins"),
                       Op("evaluate", "recolor"), Op("wait_for_timeout", "30"),
                       Op("screenshot", "out_path_colored")>>
    /\ UNCHANGED <<page, unwritable, themeParams, metricVars, searchVars>>
    /\ UNCHANGED <<tape, first_run, outsideTheme>>

\* render_raw_html_image, lines 679-687: the table if there is one, else the body
R_RawCapture ==
    /\ pc = "r_loaded"
    /\ render_fn = "raw"
    /\ IF out_path_std \in unwritable
       THEN /\ RaiseInSession
            /\ UNCHANGED shots
       ELSE /\ shots' = Append(shots,
                   [path   |-> out_path_std,
                    target |-> IF page.hasTable THEN "table" ELSE "body",
                    clip   |-> NoClip])
            /\ pc' = "r_std_saved"
            /\ UNCHANGED browser
    /\ ops' = ops \o <<Op("query_selector", IF page.hasTable THEN "table" ELSE "body"),
                       Op("screenshot", "out_path_std")>>
    /\ UNCHANGED <<page, unwritable, themeParams, metricVars, searchVars>>
    /\ UNCHANGED <<tape, first_run, outsideTheme>>

\* lines 483-485 / 803-805 / 689
R_Return ==
    /\ \/ pc = "r_std_saved" /\ render_fn \in {"single", "raw"}
       \/ pc = "r_all_saved"
    /\ browser' = "closed"
    /\ theme_returned' = chosen
    /\ ops' = ops \o <<Op("close", "")>>
    /\ pc' = "r_returned"
    /\ UNCHANGED <<page, unwritable, shots, themeParams, metricVars>>
    /\ UNCHANGED <<should_apply_color, attempts, chosen, style_tags>>
    /\ UNCHANGED <<tape, first_run, outsideTheme>>

NextRender ==
    \/ R_Prepare
    \/ R_Launch
    \/ R_InjectCss
    \/ R_Wrap
    \/ R_MeasureBase
    \/ R_Draw
    \/ R_Attempt
    \/ R_Plain
    \/ R_Exhausted
    \/ R_CaptureStd
    \/ R_CaptureColored
    \/ R_RawCapture
    \/ R_Return

SpecRender == InitRender /\ [][NextRender]_vars

(***************************************************************************)
(* C8: when the theme search is entered and none of the max_tries attempts *)
(* passes the stability check, the render ends with an error, returns no   *)
(* theme name and takes no screenshot.                                     *)
(***************************************************************************)
SearchExhausted ==
    /\ should_apply_color
    /\ Len(attempts) = max_tries
    /\ \A k \in 1..Len(attempts) : ~attempts[k].passed

C8_ExhaustionIsFatal ==
    (SearchExhausted /\ pc # "r_after") =>
        /\ pc = "r_raised"
        /\ theme_returned = "None"
        /\ shots = <<>>

C8_Witness ==
    /\ pc = "r_raised"
    /\ should_apply_color
    /\ Len(attempts) = 2
    /\ browser = "closed"

(***************************************************************************)
(* C9: if a render ends in failure, no output image file of that render    *)
(* has been written.                                                       *)
(***************************************************************************)
C9_NoPartialOutput ==
    pc \in {"r_raised", "rs_raised"} => shots = <<>>

(***************************************************************************)
(* The batch loops: process_all_html_files (html2img.py 491-619),          *)
(* process_html_files (html2img_split.py 331-395) and                      *)
(* process_output_qa_folder (extract_table.py 187-247).                    *)
(* An input file is [stem, readable, blank]: read_text raises for a file   *)
(* that is not readable (not UTF-8, permissions); a blank file holds only  *)
(* whitespace.  A render called by a loop runs inside asyncio.run: the     *)
(* loop goes on only when the render has ended.  The render is summarised  *)
(* by its session and its outcome: it returns after writing its files, or  *)
(* it raises, having written some of them.                                 *)
(***************************************************************************)
MaxFiles == 2
MaxQaFiles == 6
MaxParts == 2

Stems ==
    <<(<<"a">>), (<<"b">>), (<<"c">>), (<<"d">>), (<<"e">>), (<<"f">>),
      (<<"g">>), (<<"h">>)>>

FileKinds ==
    {[readable |-> TRUE, blank |-> FALSE],
     [readable |-> FALSE, blank |-> FALSE],
     [readable |-> TRUE, blank |-> TRUE]}

\* list(inp.glob("*.html")) with at most n files
InputLists(n) ==
    UNION {{[k \in 1..m |-> [stem |-> Stems[k], readable |-> kd[k].readable,
                             blank |-> kd[k].blank]] :
                kd \in [1..m -> FileKinds]} : m \in 0..n}

\* std_out / raw_out / output_path with the collision counter; 0 is the first name
CounterName(base, counter) ==
    IF counter = 0 THEN base ELSE Append(base, ToString(counter))

ColoredName(base, counter) == Append(CounterName(base, counter), "colored")

\* f"{stem}_v{img_idx + 1}" when images_per_file > 1
VariantBase(stem, images_per_file, idx) ==
    IF images_per_file > 1 THEN Append(stem, "v" \o ToString(idx + 1)) ELSE stem

\* the condition of the `while ... exists()` loops
NameTaken(files, base, with_colored, counter) ==
    \/ CounterName(base, counter) \in files
    \/ (with_colored /\ ColoredName(base, counter) \in files)

FreeCounterOneStep(files, base, with_colored, counter) ==
    IF NameTaken(files, base, with_colored, counter) THEN counter + 1 ELSE counter

RECURSIVE FreeCounter(_, _, _, _)
\* the `while ... exists()` loops of lines 537-542, 575-582 and 370-372
FreeCounter(files, base, with_colored, counter) ==
    IF NameTaken(files, base, with_colored, counter)
    THEN FreeCounter(files, base, with_colored, counter + 1)
    ELSE counter

\* the counter of the names the loop passes to the render
ChosenCounter(files, base, with_colored, overwrite) ==
    IF overwrite THEN 0 ELSE FreeCounter(files, base, with_colored, 0)

\* the names chosen for one render, and the directory they were chosen in
ChooseOut(files, base, with_colored, overwrite) ==
    LET counter == ChosenCounter(files, base, with_colored, overwrite)
    IN  [base    |-> base,
         counter |-> counter,
         std     |-> CounterName(base, counter),
         clr     |-> IF with_colored THEN ColoredName(base, counter) ELSE <<>>,
         files   |-> files]

\* what a render can have written when it ends: [ok, written]
DualOutcomes(std, clr) ==
    {[ok |-> TRUE, written |-> {std, clr}],
     [ok |-> FALSE, written |-> {}],
     [ok |-> FALSE, written |-> {std}]}

SingleOutcomes(out) ==
    {[ok |-> TRUE, written |-> {out}], [ok |-> FALSE, written |-> {}]}

SplitOutcomes(out) ==
    {[ok |-> TRUE, written |-> {out}], [ok |-> FALSE, written |-> {}]} \cup
    {[ok |-> TRUE, written |-> {Append(out, ToString(k)) : k \in 1..n}] : n \in 2..MaxParts} \cup
    {[ok |-> FALSE, written |-> {Append(out, ToString(k)) : k \in 1..n}] : n \in 1..(MaxParts - 1)}

\* the outcomes of the render the loop is waiting for
RenderOutcomes ==
    IF batch_fn = "split" THEN SplitOutcomes(chosen_out.std)
    ELSE IF ~batch_opts.raw_mode /\ batch_opts.generate_colored
         THEN DualOutcomes(chosen_out.std, chosen_out.clr)
         ELSE SingleOutcomes(chosen_out.std)

\* `except Exception as e: print(...)`
Catch(i, idx, outcome) ==
    IF outcome.ok THEN caught
    ELSE Append(caught, [file |-> i, image |-> idx, error |-> "render"])

\* `async with async_playwright() as p: browser = await p.chromium.launch()`
\* each render launches a browser and a page of its own
LaunchSession(sess, i, idx) ==
    Append(sess, [file |-> i, image |-> idx, state |-> "open", over |-> {}])

EndSessionNever(sess) == sess

\* asyncio.run returns or raises when the render coroutine has ended, that
\* is after its browser.close() or after it left its `async with` block
EndSession(sess) == [sess EXCEPT ![Len(sess)].state = "closed"]

\* the files a render wrote that the output directory held when it began
WrittenOver(files, outcome) == outcome.written \cap files

\* ', '.join(failed_files[:5]) + ("..." if len(failed_files) > 5 else "")
FailedShown(failed) ==
    IF Len(failed) > 5 THEN Append(SubSeq(failed, 1, 5), <<"...">>) ELSE failed

outsideBatch ==
    <<splitVars, pageVars, renderVars, render_fn, color_probability, max_tries,
      metricVars, searchVars, traceVars, textVars>>

\* the arguments of the run
batchArgs == <<batch_fn, html_files, batch_opts, font_path>>

InitBatch ==
    /\ pc = "b_start"
    /\ batch_fn \in {"all", "split", "qa"}
    /\ html_files \in InputLists(IF batch_fn = "qa" THEN MaxQaFiles ELSE MaxFiles)
    /\ batch_fn # "qa" => \A k \in 1..Len(html_files) : ~html_files[k].blank
    /\ \E ow \in BOOLEAN, raw \in BOOLEAN, gc \in BOOLEAN, n \in 1..2 :
          /\ batch_fn = "split" => (~raw /\ ~gc /\ n = 1)
          /\ batch_fn = "qa" => (ow /\ ~raw /\ ~gc /\ n = 1)
          /\ batch_opts = [overwrite |-> ow, raw_mode |-> raw,
                           generate_colored |-> gc, images_per_file |-> n]
    /\ font_path \in (IF batch_fn = "all" /\ ~batch_opts.raw_mode
                      THEN {"none", "missing"} ELSE {"none"})
    /\ file_idx = 0
    /\ img_idx = 0
    /\ fs \in (IF batch_fn = "qa" THEN {{}}
               ELSE {{}, {<<"a">>}, {<<"a">>, <<"a", "1">>},
                     {<<"a", "colored">>, <<"a", "1">>}})
    /\ attempted = {}
    /\ caught = <<>>
    /\ failed_files = <<>>
    /\ reported = <<>>
    /\ chosen_out = NoOut
    /\ sessions = <<>>
    /\ rows = <<>>
    /\ max_height = 0
    /\ splits = <<>>
    /\ IdlePage
    /\ IdleRender
    /\ render_fn = "none"
    /\ color_probability = 0
    /\ max_tries = 0
    /\ tol = 0
    /\ should_apply_color = FALSE
    /\ base_metrics = <<>>
    /\ cur_metrics = <<>>
    /\ within_result = FALSE
    /\ attempts = <<>>
    /\ chosen = "None"
    /\ style_tags = <<>>
    /\ theme_returned = "None"
    /\ IdleTrace
    /\ IdleText

\* lines 503-514 / 342-353 / 209-214: nothing to do without input files
B_Start ==
    /\ pc = "b_start"
    /\ pc' = IF html_files = <<>> THEN "b_done" ELSE "b_file"
    /\ UNCHANGED <<batchVars, font_path, outsideBatch>>

\* process_all_html_files, lines 516-523: read and clean, outside any try
B_Read ==
    /\ pc = "b_file"
    /\ batch_fn = "all"
    /\ file_idx < Len(html_files)
    /\ attempted' = attempted \cup {file_idx}
    /\ img_idx' = 0
    /\ pc' = IF html_files[file_idx + 1].readable THEN "b_images" ELSE "b_aborted"
    /\ UNCHANGED <<batchArgs, file_idx, fs, caught, failed_files, reported>>
    /\ UNCHANGED <<chosen_out, sessions, outsideBatch>>

\* lines 528-545: raw mode, the name is chosen and render_raw_html_image called
B_CallRaw ==
    /\ pc = "b_images"
    /\ batch_opts.raw_mode
    /\ img_idx < batch_opts.images_per_file
    /\ chosen_out' = ChooseOut(fs,
                        VariantBase(html_files[file_idx + 1].stem,
                                    batch_opts.images_per_file, img_idx),
                        FALSE, batch_opts.overwrite)
    /\ sessions' = LaunchSession(sessions, file_idx, img_idx)
    /\ pc' = "b_render"
    /\ UNCHANGED <<batchArgs, file_idx, img_idx, fs, attempted, caught>>
    /\ UNCHANGED <<failed_files, reported, outsideBatch>>

\* lines 557-611: the names are chosen and the themed render called; with a
\* font file that does not exist the render raises before it launches
B_CallThemed ==
    /\ pc = "b_images"
    /\ ~batch_opts.raw_mode
    /\ img_idx < batch_opts.images_per_file
    /\ chosen_out' = ChooseOut(fs,
                        VariantBase(html_files[file_idx + 1].stem,
                                    batch_opts.images_per_file, img_idx),
                        batch_opts.generate_colored, batch_opts.overwrite)
    /\ IF font_path = "missing"
       THEN /\ caught' = Append(caught,
                   [file |-> file_idx, image |-> img_idx, error |-> "font"])
            /\ img_idx' = img_idx + 1
            /\ UNCHANGED <<pc, sessions>>
       ELSE /\ sessions' = LaunchSession(sessions, file_idx, img_idx)
            /\ pc' = "b_render"
            /\ UNCHANGED <<caught, img_idx>>
    /\ UNCHANGED <<batchArgs, file_idx, fs, attempted, failed_files, reported>>
    /\ UNCHANGED outsideBatch

\* process_html_files, lines 357-382: read, clean, choose the name and call
\* render_html_with_split, all inside the try
B_CallSplit ==
    /\ pc = "b_file"
    /\ batch_fn = "split"
    /\ file_idx < Len(html_files)
    /\ attempted' = attempted \cup {file_idx}
    /\ IF ~html_files[file_idx + 1].readable
       THEN /\ caught' = Append(caught, [file |-> file_idx, image |-> 0, error |-> "read"])
            /\ file_idx' = file_idx + 1
            /\ UNCHANGED <<pc, chosen_out, sessions>>
       ELSE /\ chosen_out' = ChooseOut(fs, html_files[file_idx + 1].stem,
                                FALSE, batch_opts.overwrite)
            /\ sessions' = LaunchSession(sessions, file_idx, 0)
            /\ pc' = "b_render"
            /\ UNCHANGED <<caught, file_idx>>
    /\ UNCHANGED <<batchArgs, img_idx, fs, failed_files, reported, outsideBatch>>

\* asyncio.run(...) returns or raises: lines 544-555, 584-619 / 375-392
B_RenderEnds ==
    /\ pc = "b_render"
    /\ \E outcome \in RenderOutcomes :
          /\ fs' = fs \cup outcome.written
          /\ caught' = Catch(file_idx, img_idx, outcome)
          /\ sessions' = [EndSession(sessions) EXCEPT
                             ![Len(sessions)].over = WrittenOver(fs, outcome)]
    /\ IF batch_fn = "split"
       THEN /\ file_idx' = file_idx + 1
            /\ pc' = "b_file"
            /\ UNCHANGED img_idx
       ELSE /\ img_idx' = img_idx + 1
            /\ pc' = "b_images"
            /\ UNCHANGED file_idx
    /\ UNCHANGED <<batchArgs, attempted, failed_files, reported, chosen_out>>
    /\ UNCHANGED outsideBatch

\* the inner loop is over: the next file
B_NextFile ==
    /\ pc = "b_images"
    /\ img_idx = batch_opts.images_per_file
    /\ file_idx' = file_idx + 1
    /\ pc' = "b_file"
    /\ UNCHANGED <<batchArgs, img_idx, fs, attempted, caught, failed_files>>
    /\ UNCHANGED <<reported, chosen_out, sessions, outsideBatch>>

\* process_output_qa_folder, lines 219-241: one iteration
B_QaFile ==
    /\ pc = "b_file"
    /\ batch_fn = "qa"
    /\ file_idx < Len(html_files)
    /\ attempted' = attempted \cup {file_idx}
    /\ LET f    == html_files[file_idx + 1]
           fail(err) ==
               /\ failed_files' = Append(failed_files, f.stem)
               /\ caught' = Append(caught,
                     [file |-> file_idx, image |-> 0, error |-> err])
               /\ UNCHANGED fs
       IN  IF ~f.readable THEN fail("read")
           ELSE IF f.blank THEN fail("no_valid_table")
           ELSE \E outcome \in SingleOutcomes(f.stem) :
                   IF outcome.ok
                   THEN /\ fs' = fs \cup outcome.written
                        /\ UNCHANGED <<failed_files, caught>>
                   ELSE fail("write")
    /\ file_idx' = file_idx + 1
    /\ UNCHANGED <<pc, batchArgs, img_idx, reported, chosen_out, sessions>>
    /\ UNCHANGED outsideBatch

\* the loop over the files is over: lines 394-395 of process_html_files
\* print the number of images, process_all_html_files prints nothing
B_Finish ==
    /\ pc = "b_file"
    /\ batch_fn # "qa"
    /\ file_idx = Len(html_files)
    /\ pc' = "b_done"
    /\ UNCHANGED <<batchVars, font_path, outsideBatch>>

\* process_output_qa_folder, lines 243-247
B_QaFinish ==
    /\ pc = "b_file"
    /\ batch_fn = "qa"
    /\ file_idx = Len(html_files)
    /\ reported' = FailedShown(failed_files)
    /\ pc' = "b_done"
    /\ UNCHANGED <<batchArgs, file_idx, img_idx, fs, attempted, caught>>
    /\ UNCHANGED <<failed_files, chosen_out, sessions, outsideBatch>>

NextBatch ==
    \/ B_Start
    \/ B_Read
    \/ B_CallRaw
    \/ B_CallThemed
    \/ B_CallSplit
    \/ B_RenderEnds
    \/ B_NextFile
    \/ B_QaFile
    \/ B_QaFinish
    \/ B_Finish

SpecBatch == InitBatch /\ [][NextBatch]_vars

(***************************************************************************)
(* C10: a failure while handling one input file (reading, cleaning or      *)
(* rendering it) is caught for that file and the loop goes on: every input *)
(* file found is attempted and the batch never aborts because of one file. *)
(***************************************************************************)
BatchEnded == pc \in {"b_done", "b_aborted"}

C10_FailureIsolation ==
    BatchEnded =>
        /\ pc = "b_done"
        /\ attempted = 0..(Len(html_files) - 1)

(***************************************************************************)
(* C11: at the end of every batch run the failed file names reported are   *)
(* exactly the names of the files for which a failure was caught during    *)
(* the run.                                                                *)
(***************************************************************************)
FailedNames == {html_files[caught[k].file + 1].stem : k \in 1..Len(caught)}

C11_FailureSummary ==
    pc = "b_done" => {reported[k] : k \in 1..Len(reported)} = FailedNames

(***************************************************************************)
(* C12: in render_table_single_image, render_table_dual_images and         *)
(* render_html_with_split, when the wrapped document holds no <table>      *)
(* element the render ends with an error and has produced no image.        *)
(***************************************************************************)
RenderEnded == pc \in {"r_returned", "r_raised", "rs_returned", "rs_raised"}

C12_NoTableFound ==
    (RenderEnded /\ render_fn # "raw" /\ ~page.hasTable) =>
        /\ pc \in {"r_raised", "rs_raised"}
        /\ shots = <<>>

(***************************************************************************)
(* C13: when a font_path is given and the file does not exist,             *)
(* render_table_single_image and render_table_dual_images raise before any *)
(* browser is launched: the render ends in the error, no browser session   *)
(* is ever opened and no output is written.                                *)
(***************************************************************************)
C13_MissingFontFailsFast ==
    (render_fn \in {"single", "dual"} /\ font_path = "missing") =>
        /\ pc \in {"r_start", "r_raised"}
        /\ browser = "none"
        /\ shots = <<>>
        /\ theme_returned = "None"

C13_Witness ==
    /\ render_fn = "dual"
    /\ font_path = "missing"
    /\ pc = "r_raised"
    /\ browser = "none"

(***************************************************************************)
(* C14: in batch mode with overwrite disabled the output path chosen for a *)
(* render is the base name when it is free, else the base name with the    *)
(* smallest counter 1, 2, 3, ... for which the name is free; in dual mode  *)
(* the standard and the '_colored' path carry the same counter and both    *)
(* are free when chosen.  A name is free when no file of the output        *)
(* directory has it at the time of the choice.                             *)
(***************************************************************************)
DualMode == batch_fn = "all" /\ ~batch_opts.raw_mode /\ batch_opts.generate_colored

FreeAt(out, c) ==
    /\ CounterName(out.base, c) \notin out.files
    /\ DualMode => Append(CounterName(out.base, c), "colored") \notin out.files

C14_CollisionFreeNaming ==
    (chosen_out # NoOut /\ ~batch_opts.overwrite) =>
        /\ FreeAt(chosen_out, chosen_out.counter)
        /\ \A c \in 0..(chosen_out.counter - 1) : ~FreeAt(chosen_out, c)
        /\ chosen_out.std = (IF chosen_out.counter = 0 THEN chosen_out.base
                             ELSE Append(chosen_out.base, ToString(chosen_out.counter)))
        /\ DualMode => chosen_out.clr = Append(chosen_out.std, "colored")

C14_Witness ==
    /\ pc = "b_render"
    /\ DualMode
    /\ ~batch_opts.overwrite
    /\ chosen_out.files = {<<"a", "colored">>, <<"a", "1">>}
    /\ chosen_out.std = <<"a", "2">>
    /\ chosen_out.clr = <<"a", "2", "colored">>

(***************************************************************************)
(* Specification SpecRenders: one call of any of the render entry points   *)
(* render_table_single_image, render_table_dual_images,                    *)
(* render_raw_html_image and render_html_with_split.                       *)
(***************************************************************************)
InitRenders == InitRender \/ InitRenderSplit

NextRenders == NextRender \/ NextRenderSplit

SpecRenders == InitRenders /\ [][NextRenders]_vars

(***************************************************************************)
(* C15: in every render entry point, on every exit path (success, theme    *)
(* search exhaustion, missing table, an error during capture) the browser  *)
(* session launched for the render is closed when the render returns or    *)
(* raises, and a session that was launched is open only while the render   *)
(* runs.                                                                   *)
(***************************************************************************)
C15_GuaranteedTeardown ==
    /\ RenderEnded => browser # "open"
    /\ pc \in {"r_returned", "rs_returned"} => browser = "closed"

C15_Witness ==
    /\ pc = "r_raised"
    /\ render_fn = "dual"
    /\ Len(shots) = 1
    /\ browser = "closed"

(***************************************************************************)
(* C16: during a batch run at most one browser session is open at any      *)
(* moment; the session of the next render is launched only after the       *)
(* previous render has ended, its session teardown included; no two        *)
(* renders use the same browser or page instance.                          *)
(***************************************************************************)
OpenSessions == {k \in 1..Len(sessions) : sessions[k].state = "open"}

C16_SequentialBatch ==
    /\ Cardinality(OpenSessions) <= 1
    /\ \A k \in 1..(Len(sessions) - 1) : sessions[k].state = "closed"
    /\ pc # "b_render" => OpenSessions = {}
    /\ \A j, k \in 1..Len(sessions) :
          (sessions[j].file = sessions[k].file
              /\ sessions[j].image = sessions[k].image) => j = k

C16_Witness ==
    /\ pc = "b_render"
    /\ Len(sessions) = 3
    /\ sessions[1].state = "closed"
    /\ sessions[2].state = "closed"
    /\ sessions[3].state = "open"

(***************************************************************************)
(* extract_clean_table and clean_html_response (extract_table.py).         *)
(* A string is a sequence of symbols.  A symbol is a character, a start    *)
(* tag with its attributes, an end tag or a comment; a character is "x",   *)
(* a space, a newline, a markdown fence (the three backquotes, written     *)
(* "FENCE") or the entity "&lt;".  What                                    *)
(* BeautifulSoup(html, "html.parser") makes of a string is the sequence of *)
(* the tree's nodes in document order: start tags, end tags (one for each  *)
(* start tag, the tree being well nested), text nodes and comments.  The   *)
(* characters of a text node are "x", space, newline, fence and "<".       *)
(***************************************************************************)
Ch(c) == [k |-> "char", name |-> c, attrs |-> <<>>, text |-> <<>>]

StartTag(n, attrs) == [k |-> "open", name |-> n, attrs |-> attrs, text |-> <<>>]

EndTag(n) == [k |-> "close", name |-> n, attrs |-> <<>>, text |-> <<>>]

CommentOf(t) == [k |-> "comment", name |-> "", attrs |-> <<>>, text |-> t]

TextNode(t) == [k |-> "text", name |-> "", attrs |-> <<>>, text |-> t]

\* what \s matches and what str.strip() strips
IsSpace(c) == c \in {" ", "\n"}

AllSpace(t) == \A k \in 1..Len(t) : IsSpace(t[k])

\* str.strip()
RECURSIVE StripLeft(_)
StripLeft(t) ==
    IF t # <<>> /\ IsSpace(Head(t)) THEN StripLeft(Tail(t)) ELSE t

RECURSIVE StripRight(_)
StripRight(t) ==
    IF t # <<>> /\ IsSpace(t[Len(t)]) THEN StripRight(SubSeq(t, 1, Len(t) - 1)) ELSE t

Strip(t) == StripRight(StripLeft(t))

RECURSIVE CollapseSpaces(_, _)
\* re.sub(r"\s+", " ", text): every maximal run of whitespace becomes one space
CollapseSpaces(t, i) ==
    IF i > Len(t) THEN <<>>
    ELSE IF IsSpace(t[i])
         THEN (IF i > 1 /\ IsSpace(t[i - 1]) THEN <<>> ELSE <<" ">>)
                  \o CollapseSpaces(t, i + 1)
         ELSE <<t[i]>> \o CollapseSpaces(t, i + 1)

normalize_text_without_strip(t) == CollapseSpaces(t, 1)

\* normalize_text (lines 27-32)
normalize_text(t) == Strip(CollapseSpaces(t, 1))

\* the parser turns a character reference into its character, the
\* serializer turns "<" in a text node into "&lt;"
Unescape(c) == IF c = "&lt;" THEN "<" ELSE c

Escape(c) == IF c = "<" THEN "&lt;" ELSE c

\* elements without content
VoidTags == {"br"}

\* the end of a run of character data: one text node; a run made of
\* whitespace only is kept as one newline or one space
EndData(data, out) ==
    IF data = <<>> THEN out
    ELSE IF AllSpace(data)
         THEN Append(out, TextNode(IF \E k \in 1..Len(data) : data[k] = "\n"
                                   THEN <<"\n">> ELSE <<" ">>))
         ELSE Append(out, TextNode(data))

RECURSIVE CloseAll(_, _)
\* end tags for the open elements of the stack, innermost (last) first
CloseAll(stack, out) ==
    IF stack = <<>> THEN out
    ELSE CloseAll(SubSeq(stack, 1, Len(stack) - 1), Append(out, EndTag(stack[Len(stack)])))

\* position of the innermost open element called n, 0 when there is none
InnermostOpen(stack, n) ==
    IF \E k \in 1..Len(stack) : stack[k] = n
    THEN CHOOSE k \in 1..Len(stack) :
            stack[k] = n /\ \A j \in (k + 1)..Len(stack) : stack[j] # n
    ELSE 0

RECURSIVE SoupFrom(_, _, _, _, _)
\* the parser's pass over the string from symbol i on: stack holds the
\* names of the open elements, data the character data not yet ended
SoupFrom(s, i, stack, data, out) ==
    IF i > Len(s) THEN CloseAll(stack, EndData(data, out))
    ELSE LET sym == s[i] IN
         IF sym.k = "char"
         THEN SoupFrom(s, i + 1, stack, Append(data, Unescape(sym.name)), out)
         ELSE IF sym.k = "comment"
         THEN SoupFrom(s, i + 1, stack, <<>>, Append(EndData(data, out), sym))
         ELSE IF sym.k = "open"
         THEN IF sym.name \in VoidTags
              THEN SoupFrom(s, i + 1, stack, <<>>,
                       EndData(data, out) \o <<sym, EndTag(sym.name)>>)
              ELSE SoupFrom(s, i + 1, Append(stack, sym.name), <<>>,
                       Append(EndData(data, out), sym))
         ELSE LET at == InnermostOpen(stack, sym.name) IN
              IF at = 0
              THEN SoupFrom(s, i + 1, stack, <<>>, EndData(data, out))
              ELSE SoupFrom(s, i + 1, SubSeq(stack, 1, at - 1), <<>>,
                       CloseAll(SubSeq(stack, at, Len(stack)), EndData(data, out)))

\* BeautifulSoup(html_content, "html.parser")
BeautifulSoup(s) == SoupFrom(s, 1, <<>>, <<>>, <<>>)

\* lines 12-24
STYLE_ATTRIBUTES ==
    {"style", "class", "id", "align", "valign", "width", "height", "bgcolor",
     "border", "cellpadding", "cellspacing"}

\* line 91
style_tags_unwrapped ==
    {"strong", "b", "i", "em", "u", "span", "font", "mark", "small", "big",
     "sub", "sup", "s", "strike", "del", "ins", "abbr", "cite", "code", "kbd",
     "samp", "var"}

\* start tags minus end tags among nodes a..b
Balance(nodes, a, b) ==
    Cardinality({m \in a..b : nodes[m].k = "open"})
        - Cardinality({m \in a..b : nodes[m].k = "close"})

\* the end tag of the element whose start tag is node k
MatchingEnd(nodes, k) ==
    CHOOSE j \in k..Len(nodes) :
        /\ Balance(nodes, k, j) = 0
        /\ \A i \in k..(j - 1) : Balance(nodes, k, i) > 0

RECURSIVE KeepNodes(_, _, _)
\* the nodes from i on whose position is not in the set gone
KeepNodes(nodes, i, gone) ==
    IF i > Len(nodes) THEN <<>>
    ELSE (IF i \in gone THEN <<>> ELSE <<nodes[i]>>) \o KeepNodes(nodes, i + 1, gone)

\* soup.find("table"): the first table element with everything in it,
\* <<>> when there is none
FindTable(nodes) ==
    LET starts == {k \in 1..Len(nodes) :
                      nodes[k].k = "open" /\ nodes[k].name = "table"}
    IN  IF starts = {} THEN <<>>
        ELSE LET k == CHOOSE m \in starts : \A n \in starts : m <= n
             IN  SubSeq(nodes, k, MatchingEnd(nodes, k))

\* `del tag[attr]` for every attr of STYLE_ATTRIBUTES, on the table and on
\* every tag in it (lines 64-72)
RemoveStyleAttributes(nodes) ==
    [k \in 1..Len(nodes) |->
        IF nodes[k].k = "open"
        THEN [nodes[k] EXCEPT !.attrs =
                 SelectSeq(nodes[k].attrs, LAMBDA a : a.name \notin STYLE_ATTRIBUTES)]
        ELSE nodes[k]]

\* tag.decompose() for every descendant called one of names
Decompose(nodes, names) ==
    KeepNodes(nodes, 1,
        {m \in 1..Len(nodes) :
            \E k \in 2..m : /\ nodes[k].k = "open"
                            /\ nodes[k].name \in names
                            /\ m <= MatchingEnd(nodes, k)})

\* tag.unwrap() for every descendant called one of names: the tag goes,
\* its children stay where they are
Unwrap(nodes, names) ==
    KeepNodes(nodes, 1,
        {m \in 2..Len(nodes) :
            nodes[m].k \in {"open", "close"} /\ nodes[m].name \in names})

\* comment.extract() for every comment (lines 97-98)
RemoveComments(nodes) ==
    KeepNodes(nodes, 1, {m \in 1..Len(nodes) : nodes[m].k = "comment"})

\* lines 101-107: every text node is replaced by its normalized text, or
\* removed when that is empty
NormalizeTextNodes(nodes) ==
    KeepNodes(
        [k \in 1..Len(nodes) |->
            IF nodes[k].k = "text"
            THEN TextNode(normalize_text(nodes[k].text))
            ELSE nodes[k]],
        1,
        {m \in 1..Len(nodes) :
            nodes[m].k = "text" /\ normalize_text(nodes[m].text) = <<>>})

RECURSIVE EscapeText(_)
EscapeText(t) ==
    IF t = <<>> THEN <<>> ELSE <<Ch(Escape(Head(t)))>> \o EscapeText(Tail(t))

RECURSIVE ToStr(_, _)
\* str(table): the nodes from i on, written out; an element without
\* content is one tag
ToStr(nodes, i) ==
    IF i > Len(nodes) THEN <<>>
    ELSE LET nd == nodes[i] IN
         IF nd.k = "text" THEN EscapeText(nd.text) \o ToStr(nodes, i + 1)
         ELSE IF nd.k = "close" /\ nd.name \in VoidTags THEN ToStr(nodes, i + 1)
         ELSE <<nd>> \o ToStr(nodes, i + 1)

IsSpaceSym(sym) == sym.k = "char" /\ IsSpace(sym.name)

\* remove_whitespace (lines 35-43): re.sub(r">\s+<", "><", html), then strip()
remove_whitespace(s) ==
    LET between(i) ==
            /\ IsSpaceSym(s[i])
            /\ \E a \in 1..(i - 1), b \in (i + 1)..Len(s) :
                  /\ s[a].k # "char"
                  /\ s[b].k # "char"
                  /\ \A m \in (a + 1)..(b - 1) : IsSpaceSym(s[m])
        atEnd(i) ==
            \/ \A m \in 1..i : IsSpaceSym(s[m])
            \/ \A m \in i..Len(s) : IsSpaceSym(s[m])
    IN  KeepNodes(s, 1, {i \in 1..Len(s) : between(i) \/ atEnd(i)})

\* extract_clean_table (lines 46-113)
extract_clean_table(s) ==
    LET table == FindTable(BeautifulSoup(s)) IN
    IF table = <<>> THEN None
    ELSE LET t1 == RemoveStyleAttributes(table)
             t2 == Decompose(t1, {"style"})
             t3 == Decompose(t2, {"br"})
             t4 == Unwrap(t3, {"thead", "tbody", "tfoot"})
             t5 == Decompose(t4, {"caption"})
             t6 == Unwrap(t5, style_tags_unwrapped)
             t7 == RemoveComments(t6)
             t8 == NormalizeTextNodes(t7)
         IN  [none |-> FALSE, str |-> remove_whitespace(ToStr(t8, 1))]

RECURSIVE SplitLines(_, _, _)
\* content.split("\n"): the lines from symbol i on, line being the one begun
SplitLines(s, i, line) ==
    IF i > Len(s) THEN <<line>>
    ELSE IF s[i] = Ch("\n") THEN <<line>> \o SplitLines(s, i + 1, <<>>)
    ELSE SplitLines(s, i + 1, Append(line, s[i]))

RECURSIVE JoinLines(_)
\* "\n".join(lines)
JoinLines(lines) ==
    IF lines = <<>> THEN <<>>
    ELSE IF Len(lines) = 1 THEN lines[1]
    ELSE lines[1] \o <<Ch("\n")>> \o JoinLines(Tail(lines))

\* str.strip() of a string of symbols
StripStr(s) ==
    LET spaces == {i \in 1..Len(s) :
                      \/ \A m \in 1..i : IsSpaceSym(s[m])
                      \/ \A m \in i..Len(s) : IsSpaceSym(s[m])}
    IN  KeepNodes(s, 1, spaces)

\* lines 169-179: strip, then drop the line of a leading markdown fence and
\* a last line that is a fence
WithoutCodeblock(s) ==
    LET content == StripStr(s) IN
    IF content # <<>> /\ content[1] = Ch("FENCE")
    THEN LET lines == Tail(SplitLines(content, 1, <<>>))
             last  == IF lines = <<>> THEN <<>> ELSE lines[Len(lines)]
         IN  IF lines # <<>> /\ StripStr(last) = <<Ch("FENCE")>>
             THEN JoinLines(SubSeq(lines, 1, Len(lines) - 1))
             ELSE JoinLines(lines)
    ELSE content

clean_html_response_returning_input(s) == s

\* clean_html_response (lines 156-184)
clean_html_response(s) ==
    LET content     == WithoutCodeblock(s)
        clean_table_ == extract_clean_table(content)
    IN  IF ~clean_table_.none /\ clean_table_.str # <<>>
        THEN clean_table_.str ELSE content

(***************************************************************************)
(* Specification SpecClean: extract_clean_table, applied once and then to  *)
(* its own result, and clean_html_response, on bounded inputs: a table of  *)
(* one cell with any short cell content (text, spaces, an entity, <b>      *)
(* tags closed or not, <br>, a comment) in several surroundings, and       *)
(* short contents without a table.                                         *)
(***************************************************************************)
MaxCellLen == 5
MaxPlainLen == 4

Attr(n, v) == [name |-> n, value |-> v]

CellSyms ==
    {Ch("x"), Ch(" "), Ch("&lt;"), StartTag("b", <<>>), EndTag("b"),
     StartTag("br", <<>>), CommentOf(<<" ">>)}

TdAttrs ==
    {<<>>,
     <<Attr("class", <<"x">>), Attr("colspan", <<"x">>)>>,
     <<Attr("title", <<"x", " ", " ", "x">>)>>}

\* the surroundings of the cell content
Surroundings == {"document", "caption", "unclosed", "fenced"}

\* the document with a table around the cell content
TableDoc(around, at, cell) ==
    IF around = "document"
    THEN <<Ch("x"), Ch("\n"), StartTag("table", <<Attr("border", <<"x">>)>>),
           Ch("\n"), StartTag("tr", <<>>), StartTag("td", at)>> \o cell \o
         <<EndTag("td"), EndTag("tr"), Ch("\n"), EndTag("table"), Ch("x")>>
    ELSE IF around = "caption"
    THEN <<StartTag("table", <<>>), StartTag("caption", <<>>)>> \o cell \o
         <<EndTag("caption"), Ch(" "), StartTag("tbody", <<>>), StartTag("tr", <<>>),
           StartTag("td", at), Ch(" "), Ch("x"), EndTag("td"), EndTag("tr"),
           EndTag("tbody"), EndTag("table")>>
    ELSE IF around = "unclosed"
    THEN <<StartTag("table", <<>>), StartTag("tr", <<>>), StartTag("td", at)>> \o cell
    ELSE <<Ch("FENCE"), Ch("x"), Ch("\n"), StartTag("table", <<>>), StartTag("td", at)>>
            \o cell \o
         <<EndTag("td"), EndTag("table"), Ch("\n"), Ch("FENCE"), Ch(" ")>>

PlainSyms ==
    {Ch("x"), Ch(" "), Ch("\n"), Ch("FENCE"), StartTag("p", <<>>), EndTag("p")}

outsideText == <<splitVars, pageVars, renderVars, themeVars, batchVars>>

InitClean ==
    /\ pc = "c_call"
    /\ text_fn \in {"extract_clean_table", "clean_html_response"}
    /\ \/ \E around \in Surroundings :
             /\ (around = "fenced") <=> (text_fn = "clean_html_response")
             /\ \E at \in (IF around = "document" THEN TdAttrs ELSE {<<>>}),
                   cell \in SeqsUpTo(CellSyms, MaxCellLen) :
                   html_content = TableDoc(around, at, cell)
       \/ html_content \in SeqsUpTo(PlainSyms, MaxPlainLen)
    /\ clean_table = None
    /\ clean_again = None
    /\ text_result = <<>>
    /\ rows = <<>>
    /\ max_height = 0
    /\ splits = <<>>
    /\ IdlePage
    /\ IdleRender
    /\ IdleTheme
    /\ IdleBatch

\* extract_clean_table(html_content)
Extract ==
    /\ pc = "c_call"
    /\ text_fn = "extract_clean_table"
    /\ clean_table' = extract_clean_table(html_content)
    /\ pc' = "c_once"
    /\ UNCHANGED <<text_fn, html_content, clean_again, text_result, outsideText>>

\* extract_clean_table applied to the string it returned
ExtractAgain ==
    /\ pc = "c_once"
    /\ ~clean_table.none
    /\ clean_again' = extract_clean_table(clean_table.str)
    /\ pc' = "c_twice"
    /\ UNCHANGED <<text_fn, html_content, clean_table, text_result, outsideText>>

\* clean_html_response(html_content)
CleanResponse ==
    /\ pc = "c_call"
    /\ text_fn = "clean_html_response"
    /\ clean_table' = extract_clean_table(WithoutCodeblock(html_content))
    /\ text_result' = clean_html_response(html_content)
    /\ pc' = "c_response"
    /\ UNCHANGED <<text_fn, html_content, clean_again, outsideText>>

NextClean ==
    \/ Extract
    \/ ExtractAgain
    \/ CleanResponse

SpecClean == InitClean /\ [][NextClean]_vars

(***************************************************************************)
(* C17: for every input h for which extract_clean_table(h) returns a       *)
(* string s, extract_clean_table(s) returns s again.                       *)
(***************************************************************************)
C17_Idempotence ==
    pc = "c_twice" => clean_again = clean_table

C17_Witness ==
    /\ pc = "c_twice"
    /\ \E k \in 1..Len(html_content) : html_content[k] = StartTag("b", <<>>)
    /\ clean_table.str # html_content
    /\ clean_table.str =
          <<StartTag("table", <<>>), StartTag("tr", <<>>),
            StartTag("td", <<Attr("colspan", <<"x">>)>>),
            Ch("x"), Ch("&lt;"), Ch("x"),
            EndTag("td"), EndTag("tr"), EndTag("table")>>

(***************************************************************************)
(* C18: for every input holding a table, the string extract_clean_table    *)
(* returns has no two consecutive whitespace characters anywhere, in text  *)
(* or in the values of the attributes that remain, and no whitespace       *)
(* directly after the '>' or directly before the '<' of a tag.             *)
(***************************************************************************)
NoDoubleSpace(t) ==
    \A i \in 1..(Len(t) - 1) : ~(IsSpace(t[i]) /\ IsSpace(t[i + 1]))

C18_WhitespaceCollapse ==
    (pc \in {"c_once", "c_twice"} /\ ~clean_table.none) =>
        LET s == clean_table.str IN
        /\ \A i \in 1..(Len(s) - 1) :
              /\ ~(IsSpaceSym(s[i]) /\ IsSpaceSym(s[i + 1]))
              /\ ~(s[i].k # "char" /\ IsSpaceSym(s[i + 1]))
              /\ ~(IsSpaceSym(s[i]) /\ s[i + 1].k # "char")
        /\ \A i \in 1..Len(s) :
              \A a \in 1..Len(s[i].attrs) : NoDoubleSpace(s[i].attrs[a].value)

(***************************************************************************)
(* C19 as stated: when the input holds no <table> element,                 *)
(* extract_clean_table returns None without raising and                    *)
(* clean_html_response returns the original content.                       *)
(***************************************************************************)
HasTableTag(s) == \E k \in 1..Len(s) : s[k].k = "open" /\ s[k].name = "table"

C19_OriginalContent ==
    (pc \in {"c_once", "c_response"} /\ ~HasTableTag(html_content)) =>
        /\ clean_table = None
        /\ pc = "c_response" => text_result = html_content

(***************************************************************************)
(* C19 amended: when the input holds no <table> element,                   *)
(* extract_clean_table returns None without raising and                    *)
(* clean_html_response returns the content it looked at: a contiguous      *)
(* part of the input, which is the input stripped of its surrounding       *)
(* whitespace unless that begins with a markdown fence, and so the input   *)
(* itself when it has no surrounding whitespace and no leading fence.      *)
(***************************************************************************)
Unfenced(s) ==
    s = <<>> \/ (~IsSpaceSym(s[1]) /\ ~IsSpaceSym(s[Len(s)]) /\ s[1] # Ch("FENCE"))

C19_NoTableFallback ==
    (pc \in {"c_once", "c_response"} /\ ~HasTableTag(html_content)) =>
        /\ clean_table = None
        /\ pc = "c_response" =>
              /\ \E a \in 1..(Len(html_content) + 1), b \in 0..Len(html_content) :
                    text_result = SubSeq(html_content, a, b)
              /\ (StripStr(html_content) = <<>> \/ StripStr(html_content)[1] # Ch("FENCE"))
                    => text_result = StripStr(html_content)
              /\ Unfenced(html_content) => text_result = html_content

C19_Witness ==
    /\ pc = "c_response"
    /\ html_content = <<Ch("FENCE"), Ch("\n"), Ch("x"), Ch(" ")>>
    /\ clean_table = None
    /\ text_result = <<Ch("x")>>

(***************************************************************************)
(* wrap_table_fragment (html2img.py 269-312) and wrap_html_document        *)
(* (html2img_split.py 83-147).                                             *)
(* Here a string is a sequence of pieces of text: "<" and the rest of a    *)
(* tag ("html>", "/head>", ...) are two pieces, so that a position can     *)
(* fall inside a tag.  "I_dot" is the letter U+0130, capital I with a dot  *)
(* above, whose str.lower() is the two characters "i" and U+0307, here     *)
(* "i" and "dot_above"; upper-case tags are lowered piece by piece.        *)
(***************************************************************************)
MaxTitleLen == 3

\* str.lower() of one piece
LowerOf(c) ==
    IF c = "I_dot" THEN <<"i", "dot_above">>
    ELSE IF c = "HTML>" THEN <<"html>">>
    ELSE IF c = "HEAD>" THEN <<"head>">>
    ELSE IF c = "/HEAD>" THEN <<"/head>">>
    ELSE IF c = "BODY>" THEN <<"body>">>
    ELSE <<c>>

RECURSIVE Lower(_)
\* str.lower()
Lower(s) == IF s = <<>> THEN <<>> ELSE LowerOf(Head(s)) \o Lower(Tail(s))

\* s.startswith(prefix)
StartsWith(s, prefix) ==
    Len(s) >= Len(prefix) /\ SubSeq(s, 1, Len(prefix)) = prefix

\* s.find(sub): the 0-based position of the first occurrence, -1 without one
Find(s, sub) ==
    LET at == {i \in 1..(Len(s) - Len(sub) + 1) : SubSeq(s, i, i + Len(sub) - 1) = sub}
    IN  IF at = {} THEN -1 ELSE (CHOOSE i \in at : \A j \in at : i <= j) - 1

\* s[:pos] + piece + s[pos:]; a slice bound past the end is the end
InsertAt(s, pos, piece) ==
    LET at == IF pos > Len(s) THEN Len(s) ELSE pos
    IN  SubSeq(s, 1, at) \o piece \o SubSeq(s, at + 1, Len(s))

\* font_override_style
FontStyle == <<"<", "style>", "font-family", "<", "/style>">>

\* the f-string of lines 301-312 (html2img.py) and 113-147 (html2img_split.py)
FragmentDocument(fn, s) ==
    <<"<", "!doctype html>", "\n", "<", "html>", "\n", "<", "head>", "\n">>
        \o (IF fn = "wrap_html_document"
            THEN <<"<", "style>", "base", "<", "/style>", "\n">> ELSE <<>>)
        \o FontStyle
        \o <<"\n", "<", "/head>", "\n", "<", "body>", "\n">>
        \o s
        \o <<"\n", "<", "/body>", "\n", "<", "/html>">>

\* wrap_table_fragment / wrap_html_document: the two differ in the template
WrapDocument(fn, s) ==
    LET stripped == Lower(Strip(s)) IN
    IF StartsWith(stripped, <<"<", "!doctype html>">>)
        \/ StartsWith(stripped, <<"<", "html>">>)
    THEN IF Find(Lower(s), <<"<", "/head>">>) >= 0
         THEN InsertAt(s, Find(Lower(s), <<"<", "/head>">>), FontStyle)
         ELSE IF Find(Lower(s), <<"<", "body>">>) >= 0
         THEN InsertAt(s, Find(Lower(s), <<"<", "body>">>),
                       <<"<", "head>">> \o FontStyle \o <<"<", "/head>">>)
         ELSE s
    ELSE FragmentDocument(fn, s)

\* the inputs: a bare table fragment, or a full document
WrapInputs ==
    {<<"<", "table>">> \o t \o <<"<", "/table>">> :
        t \in SeqsUpTo({"x", "I_dot", " "}, MaxTitleLen)} \cup
    {lead \o <<"<", tags[1], "<", tags[2]>> \o title \o close
        \o (IF body THEN <<"<", tags[4], "<", "table>", "<", "/table>">> ELSE <<>>) :
        lead  \in {<<>>, <<" ">>, <<"<", "!doctype html>">>},
        tags  \in {<<"html>", "head>", "/head>", "body>">>,
                   <<"HTML>", "HEAD>", "/HEAD>", "BODY>">>},
        title \in SeqsUpTo({"x", "I_dot", " "}, MaxTitleLen),
        close \in {<<>>, <<"<", "/head>">>, <<"<", "/HEAD>">>},
        body  \in BOOLEAN}

InitWrap ==
    /\ pc = "wrap_call"
    /\ text_fn \in {"wrap_table_fragment", "wrap_html_document"}
    /\ html_content \in WrapInputs
    /\ clean_table = None
    /\ clean_again = None
    /\ text_result = <<>>
    /\ rows = <<>>
    /\ max_height = 0
    /\ splits = <<>>
    /\ IdlePage
    /\ IdleRender
    /\ IdleTheme
    /\ IdleBatch

Wrap ==
    /\ pc = "wrap_call"
    /\ text_result' = WrapDocument(text_fn, html_content)
    /\ pc' = "wrap_done"
    /\ UNCHANGED <<text_fn, html_content, clean_table, clean_again, outsideText>>

NextWrap == Wrap

SpecWrap == InitWrap /\ [][NextWrap]_vars

(***************************************************************************)
(* C20: wrapping a bare table fragment yields a document that starts with  *)
(* a doctype and contains exactly one <body>; wrapping an input that is a  *)
(* full document with a <head> returns the input with only the font style  *)
(* block inserted immediately before the first '</head>', every other      *)
(* character unchanged and no <html> or <body> tag added.                  *)
(***************************************************************************)
IsTag(s, i, names) == i < Len(s) /\ s[i] = "<" /\ s[i + 1] \in names

TagCount(s, names) == Cardinality({i \in 1..Len(s) : IsTag(s, i, names)})

FullDocumentWithHead(s) ==
    /\ \/ StartsWith(Strip(s), <<"<", "!doctype html>">>)
       \/ (Strip(s) # <<>> /\ IsTag(Strip(s), 1, {"html>", "HTML>"}))
    /\ TagCount(s, {"head>", "HEAD>"}) >= 1
    /\ TagCount(s, {"/head>", "/HEAD>"}) >= 1

C20_DocumentWrapping ==
    pc = "wrap_done" =>
        /\ StartsWith(html_content, <<"<", "table>">>) =>
              /\ StartsWith(text_result, <<"<", "!doctype html>">>)
              /\ TagCount(text_result, {"body>", "BODY>"}) = 1
        /\ FullDocumentWithHead(html_content) =>
              LET first == CHOOSE i \in 1..Len(html_content) :
                              /\ IsTag(html_content, i, {"/head>", "/HEAD>"})
                              /\ \A j \in 1..(i - 1) :
                                    ~IsTag(html_content, j, {"/head>", "/HEAD>"})
              IN  text_result = SubSeq(html_content, 1, first - 1) \o FontStyle
                                  \o SubSeq(html_content, first, Len(html_content))

(***************************************************************************)
(* C21: calculate_split_points closes a group exactly when adding the next *)
(* row would push the running height above max_height and the group holds  *)
(* at least one row: inside an interval every row after the first was      *)
(* added within the budget, and for two consecutive intervals (s,e),       *)
(* (e+1,f) the heights of rows s..e plus the height of row e+1 exceed      *)
(* max_height.                                                             *)
(***************************************************************************)
C21_GreedySplitRule ==
    pc = "split_done" =>
        /\ \A k \in 1..Len(splits) :
              \A i \in (splits[k][1] + 1)..splits[k][2] :
                  IntervalHeight(rows, splits[k][1], i) <= max_height
        /\ \A k \in 1..(Len(splits) - 1) :
              /\ splits[k + 1][1] = splits[k][2] + 1
              /\ IntervalHeight(rows, splits[k][1], splits[k][2] + 1) > max_height

C21_Witness ==
    /\ pc = "split_done"
    /\ Len(splits) = 2
    /\ splits[1] = <<0, 1>>
    /\ splits[2] = <<2, 3>>
    /\ rows[3].height <= max_height
    /\ IntervalHeight(rows, 0, 1) = max_height - 1
    /\ IntervalHeight(rows, 0, 2) > max_height

(***************************************************************************)
(* C22: when the theme search is entered the renderer applies and checks   *)
(* at most max_tries themes, stops at the first attempt that passes the    *)
(* stability check, applies no further theme after it, and returns the     *)
(* theme of that accepted attempt.                                         *)
(***************************************************************************)
IsThemeTag(t) == t \notin {"font_face", "base_css"}

ThemeTags(tags) == SelectSeq(tags, IsThemeTag)

C22_BoundedThemeSearch ==
    should_apply_color =>
        /\ Len(attempts) <= max_tries
        /\ \A k \in 1..(Len(attempts) - 1) : ~attempts[k].passed
        /\ ThemeTags(style_tags) = [k \in 1..Len(attempts) |-> attempts[k].theme]
        /\ (attempts # <<>> /\ attempts[Len(attempts)].passed) =>
              /\ pc # "r_search"
              /\ chosen = attempts[Len(attempts)].theme
        /\ pc = "r_returned" =>
              /\ attempts # <<>>
              /\ attempts[Len(attempts)].passed
              /\ theme_returned = attempts[Len(attempts)].theme

C22_Witness ==
    /\ pc = "r_returned"
    /\ should_apply_color
    /\ max_tries = 2
    /\ Len(attempts) = 1
    /\ theme_returned = "soft_card"

(***************************************************************************)
(* C23: within one render the baseline snapshot is measured exactly once,  *)
(* after the base CSS was injected and the table was moved into the        *)
(* wrapper and before any theme CSS is applied; every attempt applies its  *)
(* theme, waits, measures again and compares, and each comparison is of    *)
(* that baseline with the snapshot measured after the attempt's theme was  *)
(* applied.                                                                *)
(***************************************************************************)
OpsAt(o) == {i \in 1..Len(ops) : ops[i] = o}

ThemeNames == {THEMES[k].name : k \in 1..Len(THEMES)} \cup {PlainTheme.name}

ThemeOpsAt == {i \in 1..Len(ops) : ops[i].op = "add_style_tag" /\ ops[i].arg \in ThemeNames}

ComparisonsAt == {i \in 1..Len(ops) : ops[i].op = "within_5pct"}

\* the position in ops of the comparison of the j-th attempt
ComparisonOf(j) ==
    CHOOSE i \in ComparisonsAt : Cardinality({h \in ComparisonsAt : h <= i}) = j

C23_BaselineOrdering ==
    (render_fn \in {"single", "dual"} /\ base_metrics # <<>>) =>
        LET measured == OpsAt(Op("evaluate", "MEASURE_JS"))
            first    == CHOOSE i \in measured : \A h \in measured : i <= h
        IN  /\ Cardinality(measured) = 1 + Len(attempts)
            /\ Cardinality(ComparisonsAt) = Len(attempts)
            /\ \E b \in OpsAt(Op("add_style_tag", "base_css")),
                  w \in OpsAt(Op("evaluate", "wrap")) : b < w /\ w < first
            /\ \A i \in ThemeOpsAt : first < i
            /\ tape[1] = Entry("measure", 0, "", base_metrics)
            /\ \A j \in 1..Len(attempts) :
                  LET c == ComparisonOf(j) IN
                  /\ c - 3 > first
                  /\ ops[c - 3] = Op("add_style_tag", attempts[j].theme)
                  /\ ops[c - 2] = Op("wait_for_timeout", "30")
                  /\ ops[c - 1] = Op("evaluate", "MEASURE_JS")
                  /\ \A i \in measured : i < c - 3 \/ i = c - 1 \/ i > c
                  /\ tape[2 * j + 2] = Entry("measure", 0, "", attempts[j].cur)
                  /\ attempts[j].passed = within_5pct(base_metrics, attempts[j].cur, tol)
                  /\ ops[c].arg = (IF attempts[j].passed THEN "True" ELSE "False")

C23_Witness ==
    /\ pc = "r_returned"
    /\ render_fn = "dual"
    /\ Len(attempts) = 2
    /\ ~attempts[1].passed
    /\ attempts[1].cur # attempts[2].cur
    /\ attempts[1].cur # base_metrics

(***************************************************************************)
(* C24: when the random draw is not below color_probability (always so for *)
(* color_probability = 0) the renderer draws no theme from the catalog,    *)
(* runs no stability check, applies the fixed plain theme and returns the  *)
(* name 'plain', so that this path never ends in theme-search exhaustion;  *)
(* for color_probability = 1 the search is always entered.                 *)
(***************************************************************************)
Drawn == OpsAt(Op("random", "")) # {}

C24_ColorProbabilitySkip ==
    (render_fn \in {"single", "dual"} /\ Drawn) =>
        /\ should_apply_color = (tape[2].draw < color_probability)
        /\ color_probability = 0 => ~should_apply_color
        /\ color_probability = 100 => should_apply_color
        /\ ~should_apply_color =>
              /\ attempts = <<>>
              /\ {i \in 1..Len(ops) : ops[i].op \in {"choices", "within_5pct"}} = {}
              /\ Cardinality(OpsAt(Op("evaluate", "MEASURE_JS"))) = 1
              /\ pc # "r_search"
              /\ pc # "r_plain" =>
                    /\ chosen = "plain"
                    /\ ThemeTags(style_tags) = <<"plain">>
              /\ pc = "r_returned" => theme_returned = "plain"
              /\ pc = "r_raised" => shots # <<>> \/ out_path_std \in unwritable

C24_Witness ==
    /\ pc = "r_returned"
    /\ color_probability = 50
    /\ tape[2].draw = 50
    /\ theme_returned = "plain"
    /\ max_tries = 0

(***************************************************************************)
(* C25: within one theme search, after a theme has been rejected by the    *)
(* stability check, the theme drawn for the next attempt is different from *)
(* the rejected one.                                                       *)
(***************************************************************************)
C25_RetryUsesDifferentTheme ==
    \A k \in 1..(Len(attempts) - 1) :
        ~attempts[k].passed => attempts[k + 1].theme # attempts[k].theme

(***************************************************************************)
(* C26: when the candidate snapshot has another number of cells than the   *)
(* baseline, within_5pct returns false without raising, the attempt counts *)
(* as one failed try, and the search goes on with the next attempt or ends *)
(* in exhaustion at max_tries.                                             *)
(***************************************************************************)
CountMismatch(k) == Len(attempts[k].cur) # Len(base_metrics)

C26_CountMismatchIsRejection ==
    \A k \in 1..Len(attempts) :
        CountMismatch(k) =>
            /\ ~attempts[k].passed
            /\ ops[ComparisonOf(k)].arg = "False"
            /\ k <= max_tries
            /\ k = Len(attempts) =>
                  IF k < max_tries
                  THEN pc = "r_search" /\ browser = "open"
                  ELSE /\ chosen = "None"
                       /\ pc \in {"r_after", "r_raised"}
                       /\ pc = "r_raised" => SearchExhausted /\ shots = <<>>

C26_Witness ==
    /\ pc = "r_returned"
    /\ Len(attempts) = 2
    /\ CountMismatch(1)
    /\ attempts[2].passed

(***************************************************************************)
(* The cascade over the theme style tags (build_theme_css, lines 232-263). *)
(* Every theme sets the cell background with `#shot th, #shot td`; a theme *)
(* with zebra adds `#shot table tr:nth-child(even) td`, a selector of      *)
(* higher specificity.  Neither declaration is !important, so the cells of *)
(* the even rows take the stripe of the last style tag that has a zebra    *)
(* rule, and the body background of the last theme when none has.          *)
(***************************************************************************)
ThemeNamed(name) ==
    IF name = PlainTheme.name THEN PlainTheme
    ELSE THEMES[CHOOSE k \in 1..Len(THEMES) : THEMES[k].name = name]

IsZebraTag(t) == ThemeNamed(t).zebra

\* the theme whose rule paints the cells of the even rows
EvenRowBackground(tags) ==
    LET themes == ThemeTags(tags)
        zebras == SelectSeq(themes, IsZebraTag)
    IN  IF zebras # <<>> THEN zebras[Len(zebras)] ELSE themes[Len(themes)]

(***************************************************************************)
(* C27: when the screenshot is captured the theme CSS present on the page  *)
(* is that of the returned theme alone; the CSS of the themes rejected in  *)
(* earlier attempts of the same search is no longer in effect.             *)
(***************************************************************************)
C27_OnlyAcceptedThemeStyles ==
    (shots # <<>> /\ render_fn \in {"single", "dual"}) =>
        /\ ThemeTags(style_tags) = <<chosen>>
        /\ EvenRowBackground(style_tags) = chosen

(***************************************************************************)
(* C28: for every baseline snapshot, cells of width or height 0 included,  *)
(* and every tol >= 0, within_5pct(base, base, tol) is true: a theme that  *)
(* leaves the layout exactly unchanged is always accepted.                 *)
(***************************************************************************)
C28_StabilityCheckReflexive ==
    (pc = "w_done" /\ cur_metrics = base_metrics) => within_result

(***************************************************************************)
(* C29: in process_html_files with overwrite = False no file that the      *)
(* output directory held before an input file's render began is written by *)
(* that render, the '_<n>' part files of a split table included.           *)
(***************************************************************************)
C29_SplitBatchNeverOverwrites ==
    (batch_fn = "split" /\ ~batch_opts.overwrite) =>
        \A k \in 1..Len(sessions) : sessions[k].over = {}

(***************************************************************************)
(* Specification SpecAgree: render_table_single_image and then             *)
(* render_table_dual_images on the same input, with the same seed,         *)
(* parameters and output directory, the layout engine answering the same   *)
(* measurements in the same way.  first_run keeps what the first render    *)
(* did; the second render starts from a fresh page.                        *)
(***************************************************************************)
InitAgree ==
    /\ InitRender
    /\ render_fn = "single"

\* the second call: lines 343-358, with the arguments of the first
R_Again ==
    /\ pc \in {"r_returned", "r_raised"}
    /\ ~first_run.done
    /\ first_run' = [done |-> TRUE, fn |-> render_fn, ended |-> pc, ops |-> ops,
                     tape |-> tape, theme |-> theme_returned]
    /\ render_fn' = "dual"
    /\ pc' = "r_start"
    /\ browser' = "none"
    /\ shots' = <<>>
    /\ should_apply_color' = FALSE
    /\ base_metrics' = <<>>
    /\ cur_metrics' = <<>>
    /\ within_result' = FALSE
    /\ attempts' = <<>>
    /\ chosen' = "None"
    /\ style_tags' = <<>>
    /\ theme_returned' = "None"
    /\ ops' = <<>>
    /\ tape' = <<>>
    /\ UNCHANGED <<page, unwritable, font_path, color_probability, max_tries, tol>>
    /\ UNCHANGED outsideTheme

NextAgree ==
    \/ R_Prepare
    \/ R_Launch
    \/ R_InjectCss
    \/ R_Wrap
    \/ R_MeasureBase
    \/ R_Draw
    \/ R_Attempt
    \/ R_Plain
    \/ R_Exhausted
    \/ R_CaptureStd
    \/ R_CaptureColored
    \/ R_Return
    \/ R_Again

SpecAgree == InitAgree /\ [][NextAgree]_vars

(***************************************************************************)
(* C30: on the same input, seed, parameters and layout-engine measurements *)
(* render_table_single_image and render_table_dual_images perform the same *)
(* operations up to and including the standard screenshot (same random     *)
(* draws, same themes in the same order, same accept and reject decisions) *)
(* and return the same theme name and applied font.                        *)
(***************************************************************************)
StdShotAt(o) == {i \in 1..Len(o) : o[i] = Op("screenshot", "out_path_std")}

\* the operations up to and including the standard screenshot
UpToStd(o) ==
    IF StdShotAt(o) = {} THEN o ELSE SubSeq(o, 1, CHOOSE i \in StdShotAt(o) : TRUE)

IsPrefix(s, t) == Len(s) <= Len(t) /\ SubSeq(t, 1, Len(s)) = s

FontReturned(o) ==
    {o[i].arg : i \in {h \in 1..Len(o) : o[h].op = "applied_font"}}

====
